---- MODULE Spec2Model ----
(***************************************************************************)
(* Token lifecycle and authenticated-request pipeline of etsy-python:      *)
(* ConfigManager (config/settings.py), EtsyOAuthHandler                    *)
(* (auth/oauth_handler.py), TokenManager (auth/token_manager.py) and       *)
(* EtsyAPIClient (api/client.py).                                          *)
(***************************************************************************)
EXTENDS Integers, Sequences, FiniteSets, TLC

VARIABLES
    file,           \* config.json: [st, data], data maps keys to ciphertexts
    now,            \* time.time(), in ticks
    oauthBound,     \* TokenManager._oauth_handler is set
    hVerifier,      \* EtsyOAuthHandler._verifier
    hState,         \* EtsyOAuthHandler._state
    query,          \* query string of the last redirect URL given to the handler
    argVerifier,    \* verifier argument of the call, when it is an exchange_code_for_token
    sentVerifier,   \* code_verifier of the token-exchange POST the call issued
    attempt,        \* verifier and state returned by the latest get_auth_url
    prevAttempt,    \* those returned by the get_auth_url before it
    op,             \* name of the last operation called
    pre,            \* config.json as it was when the last operation was called
    preNow,         \* time.time() when the last operation was called
    ret,            \* outcome of the last operation: [raised, err, val]
    posts,          \* POSTs to the token endpoint issued by the last operation
    resp,           \* answer of the token endpoint to the last POST
    pc,             \* position of EtsyAPIClient.request(): "idle" or "sent"
    lastRequestTime,\* EtsyAPIClient.last_request_time
    httpCalls,      \* session.request() calls issued by the last request()
    sentToken,      \* bearer token of the last session.request() call
    requests,       \* request() calls made so far
    args,           \* arguments of the last request() call
    sends,          \* keyword arguments of its session.request() calls, in order
    answers,        \* the responses to them, in order
    sleeps,         \* seconds it slept on Retry-After, in order
    rate,           \* the rate-limit fields of the client: requests_per_second, requests_today, rate_limit_reset
    argKey,         \* key argument of the last ConfigManager.set or delete
    argValue,       \* value argument of the last ConfigManager.set
    wr,             \* the write to config.json in progress: [pc, old, new]
    seen,           \* config.json as a concurrent reader last loaded it
    up,             \* UploadService.upload_products: [pc, df, setup, products, results, ret]
    pkce,           \* generate_pkce: [bytes, ret], the random bytes drawn and the pair returned
    rq,             \* the call stack of one request(): [pc, frames, calls, n429, status, raised, err]
    app             \* st.session_state of the application: [authData, authenticated]

tmVars == <<file, now, oauthBound, op, pre, preNow, ret, posts, resp>>
hVars == <<hVerifier, hState, query, argVerifier, sentVerifier, attempt, prevAttempt>>
clVars == <<pc, lastRequestTime, httpCalls, sentToken, requests, args, sends, answers, sleeps, rate>>
exVars == <<up, pkce, rq, app>>
stVars == <<argKey, argValue, wr, seen, exVars>>
vars == <<tmVars, hVars, clVars, stVars>>

-----------------------------------------------------------------------------
(* Bounds of the model *)

\* instants 100 s apart that the clock may jump to, early and late
MaxTicks == 2
\* time.time() at construction, in seconds
StartTime == 1000
\* request() calls in one run
MaxRequests == 2
\* session.request() calls of one request() (429 answers stop after these)
MaxCalls == 2
\* query parameters of a redirect URL
MaxParams == 2
\* elements of a list value in form data
MaxItems == 2

-----------------------------------------------------------------------------
(* Program constants and units *)

\* one second is ten ticks (rate_limit_delay = 0.5 needs sub-second time)
TicksPerSecond == 10
\* needs_refresh: time.time() > (expiry - 300)
RefreshWindow == 300 * TicksPerSecond
\* save_tokens: token_data.get('expires_in', 3600)
DefaultExpiresIn == 3600
\* rate_limit_delay = 0.5 seconds
RateLimitDelay == TicksPerSecond \div 2
\* int(response.headers.get('Retry-After', 60))
DefaultRetryAfter == 60

-----------------------------------------------------------------------------
(* Python values *)

None == [kind |-> "none", txt |-> "", num |-> 0]
Text(s) == [kind |-> "text", txt |-> s, num |-> 0]
Num(n) == [kind |-> "num", txt |-> "", num |-> n]
\* str(x) of a float x: a string that float() parses back to x
StrOfFloat(x) == [kind |-> "fstr", txt |-> "", num |-> x]

\* truth value of a str / None, as tested by `if value:` and `not value`
Truthy(v) == \/ v.kind = "fstr"
             \/ v.kind = "text" /\ v.txt # ""
             \/ v.kind = "num" /\ v.num # 0

\* dict.get(key, default)
DictGet(d, k, default) == IF k \in DOMAIN d THEN d[k] ELSE default

\* dict.update(other)
DictUpdate(d, other) ==
    [k \in (DOMAIN d) \cup (DOMAIN other) |->
        IF k \in DOMAIN other THEN other[k] ELSE d[k]]

\* the dict without one key (del d[key])
DictDel(d, key) == [k \in (DOMAIN d) \ {key} |-> d[k]]

EmptyDict == [k \in {} |-> None]

-----------------------------------------------------------------------------
(* ConfigManager: the encrypted credential document *)

Keys == {"api_key", "access_token", "refresh_token", "token_expires", "manual_shop_id"}
TokenKeys == {"access_token", "refresh_token", "token_expires"}

\* cipher.encrypt(value.encode()).decode()
Encrypt(v) == [ok |-> TRUE, plain |-> v]
\* an entry whose ciphertext cipher.decrypt rejects
BadCipher == [ok |-> FALSE, plain |-> None]

MissingFile == [st |-> "missing", data |-> EmptyDict]
JsonFile(d) == [st |-> "json", data |-> d]

\* the session before the connect flow has been rendered: no
\* oauth_auth_data, not authenticated
NoAuthData == [set |-> FALSE, verifier |-> None, state |-> None]
NoApp == [authData |-> NoAuthData, authenticated |-> FALSE]

\* the rate-limit fields of a new client
NoRate == [requests_per_second |-> 0, requests_today |-> 0, rate_limit_reset |-> 0]

\* request() is not on the call stack
NoRetry == [pc |-> "idle", frames |-> 0, calls |-> 0, n429 |-> 0, status |-> 0,
            raised |-> FALSE, err |-> ""]

\* generate_pkce has not been called
NoPkce == [bytes |-> <<>>, ret |-> [verifier |-> <<>>, challenge |-> <<>>]]

\* upload_products has not been called
NoUpload == [pc |-> "idle", df |-> <<>>, setup |-> TRUE, products |-> <<>>,
             results |-> <<>>, ret |-> [success |-> FALSE, total |-> 0, successful |-> 0, failed |-> 0]]

\* config.json just opened with mode 'w': it exists and is empty
EmptyFile == [st |-> "empty", data |-> EmptyDict]
\* config.json holding the first part of what json.dump writes
PartialFile == [st |-> "partial", data |-> EmptyDict]
\* no write is in progress
NoWrite == [pc |-> "idle", old |-> MissingFile, new |-> MissingFile]

\* save_credentials(data) without the `if value:` filter
SaveCredentials_KeepEmpty(f, data) ==
    LET encrypted_data == [k \in DOMAIN data |-> Encrypt(data[k])]
        existing_data == IF f.st = "json" THEN f.data ELSE EmptyDict
    IN  JsonFile(DictUpdate(existing_data, encrypted_data))

\* save_credentials(data) whose merge keeps the entries the document has
SaveCredentials_OldWins(f, data) ==
    LET encrypted_data == [k \in {x \in DOMAIN data : Truthy(data[x])} |-> Encrypt(data[k])]
        existing_data == IF f.st = "json" THEN f.data ELSE EmptyDict
    IN  JsonFile(DictUpdate(encrypted_data, existing_data))

\* save_credentials(data): encrypt the truthy values, merge into the document
SaveCredentials(f, data) ==
    LET encrypted_data == [k \in {x \in DOMAIN data : Truthy(data[x])} |-> Encrypt(data[k])]
        existing_data == IF f.st = "json" THEN f.data ELSE EmptyDict
    IN  JsonFile(DictUpdate(existing_data, encrypted_data))

\* load_credentials() that gives up at the first entry that fails to decrypt
LoadCredentials_AbortOnBad(f) ==
    IF f.st # "json" \/ \E x \in DOMAIN f.data : ~f.data[x].ok THEN EmptyDict
    ELSE [k \in DOMAIN f.data |-> f.data[k].plain]

\* load_credentials(): the entries that decrypt; {} for a missing or corrupt file
LoadCredentials(f) ==
    IF f.st # "json" THEN EmptyDict
    ELSE [k \in {x \in DOMAIN f.data : f.data[x].ok} |-> f.data[k].plain]

\* get(key, default=None)
Get(f, key) == DictGet(LoadCredentials(f), key, None)

\* set(key, value)
Set(f, key, value) == SaveCredentials(f, [k \in {key} |-> value])

\* delete(key) that unlinks the document and does not re-save the rest
Delete_UnlinkOnly(f, key) ==
    LET creds == LoadCredentials(f)
    IN  IF key \in DOMAIN creds THEN MissingFile ELSE f

\* delete(key): unlink and re-save what decrypted, without the key
Delete(f, key) ==
    LET creds == LoadCredentials(f)
    IN  IF key \in DOMAIN creds
        THEN SaveCredentials(MissingFile, DictDel(creds, key))
        ELSE f

\* get_tokens()
GetTokens(f) == [k \in TokenKeys |-> Get(f, k)]

\* ConfigManager.save_tokens(token_data) at time t
SaveTokens(f, token_data, t) ==
    LET expires_at == t + DictGet(token_data, "expires_in", Num(DefaultExpiresIn)).num * TicksPerSecond
    IN  SaveCredentials(f,
            [k \in TokenKeys |->
                CASE k = "access_token" -> token_data["access_token"]
                  [] k = "refresh_token" -> DictGet(token_data, "refresh_token", Text(""))
                  [] OTHER -> StrOfFloat(expires_at)])

-----------------------------------------------------------------------------
(* TokenManager: pure parts *)

\* get_token_expiry(): float(tokens.get('token_expires', 0)), 0.0 on ValueError/TypeError
GetTokenExpiry(f) ==
    LET v == GetTokens(f)["token_expires"]
    IN  IF v.kind \in {"fstr", "num"} THEN v.num ELSE 0

\* needs_refresh() with the window boundary included (>= for >)
NeedsRefresh_Inclusive(f, t) ==
    LET expiry == GetTokenExpiry(f)
    IN  IF expiry = 0 THEN FALSE ELSE t >= (expiry - RefreshWindow)

\* needs_refresh() without the `expiry == 0` guard
NeedsRefresh_NoUnsetGuard(f, t) == t > (GetTokenExpiry(f) - RefreshWindow)

\* needs_refresh() at time t
NeedsRefresh(f, t) ==
    LET expiry == GetTokenExpiry(f)
    IN  IF expiry = 0 THEN FALSE ELSE t > (expiry - RefreshWindow)

\* get_refresh_token()
GetRefreshToken(f) == GetTokens(f)["refresh_token"]

-----------------------------------------------------------------------------
(* The token endpoint, as EtsyOAuthHandler.refresh_token sees it *)

AccessTokens == {Text("atA"), Text("atB")}
RefreshTokens == {Text("rtA"), Text("rtB")}
\* expires_in values the endpoint reports, in seconds
ExpiresIns == {200, 400}

\* a token body; rt = None / ei = None leave the field out of the body
TokenBody(at, rt, ei) ==
    [k \in {"access_token"}
            \cup (IF rt = None THEN {} ELSE {"refresh_token"})
            \cup (IF ei = None THEN {} ELSE {"expires_in"}) |->
        CASE k = "access_token" -> at
          [] k = "refresh_token" -> rt
          [] OTHER -> ei]

TokenBodies ==
    {TokenBody(at, rt, ei) : at \in AccessTokens,
                             rt \in RefreshTokens \cup {None},
                             ei \in {Num(e) : e \in ExpiresIns} \cup {None}}

TokenResponses ==
    {[status |-> 200, body |-> b] : b \in TokenBodies}
        \cup {[status |-> 400, body |-> EmptyDict]}

NoResponse == [status |-> 0, body |-> EmptyDict]

-----------------------------------------------------------------------------
(* Outcomes of calls: [file, raised, err, val, posts] *)

Bool(b) == [kind |-> "bool", txt |-> "", num |-> IF b THEN 1 ELSE 0]

Returns(f, v, n) == [file |-> f, raised |-> FALSE, err |-> "", val |-> v, posts |-> n]
Raises(f, e, n) == [file |-> f, raised |-> TRUE, err |-> e, val |-> None, posts |-> n]

\* EtsyOAuthHandler.refresh_token(refresh_token) answered by r: one POST,
\* raises on a non-200 answer, else returns response.json()
HandlerRefreshToken(f, r) ==
    IF r.status # 200
    THEN Raises(f, "Token refresh failed", 1)
    ELSE Returns(f, r.body, 1)

\* refresh() that does not look for a stored refresh token before the POST
Refresh_NoTokenCheck(f, bound, t, r) ==
    IF ~bound THEN Raises(f, "OAuth handler not set", 0)
    ELSE LET o == HandlerRefreshToken(f, r)
         IN  IF o.raised THEN o
             ELSE Returns(SaveTokens(f, o.val, t), Bool(TRUE), o.posts)

\* refresh() that returns without save_tokens(token_data)
Refresh_NoPersist(f, bound, t, r) ==
    IF ~bound THEN Raises(f, "OAuth handler not set", 0)
    ELSE IF ~Truthy(GetRefreshToken(f)) THEN Raises(f, "No refresh token available", 0)
    ELSE LET o == HandlerRefreshToken(f, r)
         IN  IF o.raised THEN o
             ELSE Returns(f, Bool(TRUE), o.posts)

\* TokenManager.refresh() at time t, the token endpoint answering r
Refresh(f, bound, t, r) ==
    IF ~bound THEN Raises(f, "OAuth handler not set", 0)
    ELSE IF ~Truthy(GetRefreshToken(f)) THEN Raises(f, "No refresh token available", 0)
    ELSE LET o == HandlerRefreshToken(f, r)
         IN  IF o.raised THEN o
             ELSE Returns(SaveTokens(f, o.val, t), Bool(TRUE), o.posts)

\* get_access_token() that reads the stored token before it refreshes
GetAccessToken_StaleRead(f, bound, t, r) ==
    LET o == IF NeedsRefresh(f, t) /\ bound
             THEN Refresh(f, bound, t, r)
             ELSE Returns(f, None, 0)
    IN  IF o.raised THEN o
        ELSE Returns(o.file, GetTokens(f)["access_token"], o.posts)

\* TokenManager.get_access_token() at time t
GetAccessToken(f, bound, t, r) ==
    LET o == IF NeedsRefresh(f, t) /\ bound
             THEN Refresh(f, bound, t, r)
             ELSE Returns(f, None, 0)
    IN  IF o.raised THEN o
        ELSE Returns(o.file, GetTokens(o.file)["access_token"], o.posts)

\* TokenManager.clear_tokens()
ClearTokens(f) == Delete(Delete(Delete(f, "access_token"), "refresh_token"), "token_expires")

-----------------------------------------------------------------------------
(* The clock *)

\* the instants the clock may show: early ones, and ones late enough for a
\* token saved early with the default expires_in to enter the refresh window
Instants ==
    {(StartTime + 100 * k) * TicksPerSecond : k \in 0..MaxTicks}
        \cup {(StartTime + DefaultExpiresIn - 300 + 100 * k) * TicksPerSecond : k \in 0..MaxTicks}

-----------------------------------------------------------------------------
(* EtsyAPIClient: how a request is encoded *)

\* data passed to request(): None, str, int and list values; text is the
\* sequence of its characters
FNone == [kind |-> "none", chars |-> <<>>, n |-> 0, items |-> <<>>]
FStr(c) == [kind |-> "str", chars |-> c, n |-> 0, items |-> <<>>]
FInt(i) == [kind |-> "int", chars |-> <<>>, n |-> i, items |-> <<>>]
FList(l) == [kind |-> "list", chars |-> <<>>, n |-> 0, items |-> l]

\* an Optional[Dict] argument; a dict is the sequence of its items, in
\* insertion order
Absent == [given |-> FALSE, d |-> <<>>]
Given(d) == [given |-> TRUE, d |-> d]
\* truth value of the argument, as tested by `if json_data:`
DictTruthy(o) == o.given /\ o.d # <<>>

Digits == <<"0", "1", "2", "3", "4", "5", "6", "7", "8", "9">>

\* str(i) of an int i >= 0
RECURSIVE IntToChars(_)
IntToChars(i) ==
    IF i < 10 THEN <<Digits[i + 1]>> ELSE IntToChars(i \div 10) \o <<Digits[(i % 10) + 1]>>

\* str(value) of a str, int or None
Str(v) ==
    CASE v.kind = "str" -> v.chars
      [] v.kind = "int" -> IntToChars(v.n)
      [] OTHER -> <<"N", "o", "n", "e">>

\* quote(c, safe='') of one character: letters, digits and _.-~ stay
QuoteChar(c) ==
    CASE c = " " -> <<"%", "2", "0">>
      [] c = "&" -> <<"%", "2", "6">>
      [] c = "=" -> <<"%", "3", "D">>
      [] c = "/" -> <<"%", "2", "F">>
      [] c = "+" -> <<"%", "2", "B">>
      [] OTHER -> <<c>>

\* quote(text, safe='')
RECURSIVE Quote(_)
Quote(text) ==
    IF text = <<>> THEN <<>> ELSE QuoteChar(Head(text)) \o Quote(Tail(text))

\* quote_plus(text), which urlencode applies: a space becomes '+'
RECURSIVE QuotePlus(_)
QuotePlus(text) ==
    IF text = <<>> THEN <<>>
    ELSE (IF Head(text) = " " THEN <<"+">> ELSE QuoteChar(Head(text))) \o QuotePlus(Tail(text))

\* sep.join(parts)
RECURSIVE Join(_, _)
Join(parts, sep) ==
    IF parts = <<>> THEN <<>>
    ELSE IF Len(parts) = 1 THEN parts[1]
    ELSE parts[1] \o sep \o Join(Tail(parts), sep)

\* the parts _encode_form_data collects when a list value is written as one
\* key=value pair like a scalar
RECURSIVE FormParts_ListAsScalar(_)
FormParts_ListAsScalar(data) ==
    IF data = <<>> THEN <<>>
    ELSE LET key == Head(data).k
             value == Head(data).v
             own == IF value.kind = "none" THEN <<>>
                    ELSE <<key \o <<"=">> \o Quote(Str(value))>>
         IN  own \o FormParts_ListAsScalar(Tail(data))

\* the parts _encode_form_data collects over data.items()
RECURSIVE FormParts(_)
FormParts(data) ==
    IF data = <<>> THEN <<>>
    ELSE LET key == Head(data).k
             value == Head(data).v
             own == IF value.kind = "none" THEN <<>>
                    ELSE IF value.kind = "list"
                    THEN [j \in 1..Len(value.items) |->
                             key \o <<"[", "]", "=">> \o Quote(Str(value.items[j]))]
                    ELSE <<key \o <<"=">> \o Quote(Str(value))>>
         IN  own \o FormParts(Tail(data))

\* _encode_form_data(data)
EncodeFormData(data) == Join(FormParts(data), <<"&">>)

\* json.dumps of a str, an int, None or a list of them
RECURSIVE JsonValue(_)
JsonValue(v) ==
    CASE v.kind = "str" -> <<"\"">> \o v.chars \o <<"\"">>
      [] v.kind = "int" -> IntToChars(v.n)
      [] v.kind = "list" ->
            <<"[">> \o Join([j \in 1..Len(v.items) |-> JsonValue(v.items[j])], <<",", " ">>)
                    \o <<"]">>
      [] OTHER -> <<"n", "u", "l", "l">>

\* json.dumps(json_data) of a dict
JsonDumps(d) ==
    <<"{">> \o Join([j \in 1..Len(d) |->
                        <<"\"">> \o d[j].k \o <<"\"", ":", " ">> \o JsonValue(d[j].v)],
                    <<",", " ">>)
            \o <<"}">>

\* urlencode(params)
UrlEncode(d) ==
    Join([j \in 1..Len(d) |-> QuotePlus(d[j].k) \o <<"=">> \o QuotePlus(Str(d[j].v))], <<"&">>)

BaseUrl == "https://api.etsy.com/v3/application"

\* no body
NoBody == [kind |-> "none", text |-> <<>>, files |-> <<>>, fields |-> <<>>]

\* the keyword arguments request() builds for session.request(): method,
\* url, the Content-Type header it sets ("" when it sets none) and the body
PrepareRequest(a) ==
    [method |-> a.method,
     url |-> [base |-> BaseUrl, endpoint |-> a.endpoint,
              query |-> IF DictTruthy(a.params) THEN <<"?">> \o UrlEncode(a.params.d) ELSE <<>>],
     ctype |-> IF DictTruthy(a.json_data) THEN "application/json"
               ELSE IF DictTruthy(a.files) THEN ""
               ELSE IF DictTruthy(a.data) THEN "application/x-www-form-urlencoded"
               ELSE "",
     body |-> IF DictTruthy(a.json_data)
              THEN [NoBody EXCEPT !.kind = "text", !.text = JsonDumps(a.json_data.d)]
              ELSE IF DictTruthy(a.files)
              THEN [NoBody EXCEPT !.kind = "multipart", !.files = a.files.d,
                                  !.fields = IF DictTruthy(a.data) THEN a.data.d ELSE <<>>]
              ELSE IF DictTruthy(a.data)
              THEN [NoBody EXCEPT !.kind = "text", !.text = EncodeFormData(a.data.d)]
              ELSE NoBody]

\* arguments of request(method, endpoint, data, json_data, files, params)
RequestArgs(method, endpoint, data, json_data, files, params) ==
    [method |-> method, endpoint |-> endpoint, data |-> data,
     json_data |-> json_data, files |-> files, params |-> params]

\* no request() call has been made
NoArgs == RequestArgs("", "", Absent, Absent, Absent, Absent)

-----------------------------------------------------------------------------
(* State machine *)

NoRet == [raised |-> FALSE, err |-> "", val |-> None]
\* no authorization attempt is outstanding
NoAttempt == [verifier |-> None, state |-> None]

Init ==
    /\ file = MissingFile
    /\ now = StartTime * TicksPerSecond
    /\ oauthBound = FALSE
    /\ hVerifier = None
    /\ hState = None
    /\ query = <<>>
    /\ argVerifier = None
    /\ sentVerifier = None
    /\ attempt = NoAttempt
    /\ prevAttempt = NoAttempt
    /\ op = "init"
    /\ pre = MissingFile
    /\ preNow = StartTime * TicksPerSecond
    /\ ret = NoRet
    /\ posts = 0
    /\ resp = NoResponse
    /\ pc = "idle"
    /\ lastRequestTime = 0
    /\ httpCalls = 0
    /\ sentToken = None
    /\ requests = 0
    /\ args = NoArgs
    /\ sends = <<>>
    /\ answers = <<>>
    /\ sleeps = <<>>
    /\ rate = NoRate
    /\ argKey = ""
    /\ argValue = None
    /\ wr = NoWrite
    /\ seen = MissingFile
    /\ up = NoUpload
    /\ pkce = NoPkce
    /\ rq = NoRetry
    /\ app = NoApp

\* bookkeeping of a call with outcome o that was answered by r, the call
\* having been given the key and the value
CalledWith(name, o, r, key, value) ==
    /\ pc = "idle"
    /\ op' = name
    /\ pre' = file
    /\ preNow' = now
    /\ file' = o.file
    /\ ret' = [raised |-> o.raised, err |-> o.err, val |-> o.val]
    /\ posts' = o.posts
    /\ resp' = IF o.posts > 0 THEN r ELSE NoResponse
    /\ argKey' = key
    /\ argValue' = value
    /\ UNCHANGED <<wr, seen, exVars>>

\* bookkeeping of a call that takes neither
Called(name, o, r) == CalledWith(name, o, r, "", None)

\* time passes between calls
Elapse ==
    /\ pc = "idle"
    /\ \E t \in Instants : t > now /\ now' = t
    /\ op' = "elapse"
    /\ pre' = file
    /\ preNow' = now'
    /\ ret' = NoRet
    /\ posts' = 0
    /\ resp' = NoResponse
    /\ UNCHANGED <<file, oauthBound, hVars, clVars, stVars>>

\* TokenManager.set_oauth_handler(oauth_handler)
SetOAuthHandler ==
    /\ oauthBound' = TRUE
    /\ Called("set_oauth_handler", Returns(file, None, 0), NoResponse)
    /\ UNCHANGED <<now, hVars, clVars>>

\* TokenManager.save_tokens(token_data), token_data from a completed exchange
TMSaveTokens ==
    /\ \E b \in TokenBodies :
          Called("save_tokens", Returns(SaveTokens(file, b, now), None, 0), NoResponse)
    /\ UNCHANGED <<now, oauthBound, hVars, clVars>>

\* TokenManager.get_access_token()
TMGetAccessToken ==
    /\ \E r \in TokenResponses :
          Called("get_access_token", GetAccessToken(file, oauthBound, now, r), r)
    /\ UNCHANGED <<now, oauthBound, hVars, clVars>>

\* TokenManager.needs_refresh()
TMNeedsRefresh ==
    /\ Called("needs_refresh", Returns(file, Bool(NeedsRefresh(file, now)), 0), NoResponse)
    /\ UNCHANGED <<now, oauthBound, hVars, clVars>>

\* TokenManager.refresh()
TMRefresh ==
    /\ \E r \in TokenResponses :
          Called("refresh", Refresh(file, oauthBound, now, r), r)
    /\ UNCHANGED <<now, oauthBound, hVars, clVars>>

\* TokenManager.clear_tokens()
TMClearTokens ==
    /\ Called("clear_tokens", Returns(ClearTokens(file), None, 0), NoResponse)
    /\ UNCHANGED <<now, oauthBound, hVars, clVars>>

NextToken ==
    \/ Elapse
    \/ SetOAuthHandler
    \/ TMSaveTokens
    \/ TMGetAccessToken
    \/ TMNeedsRefresh
    \/ TMRefresh
    \/ TMClearTokens

SpecToken == Init /\ [][NextToken]_vars

-----------------------------------------------------------------------------
(* ConfigManager on its own: any key, undecryptable entries, a corrupt file *)

\* the values written under each key (the empty string is one of them)
StoreValues(key) ==
    CASE key = "access_token" -> AccessTokens
      [] key = "refresh_token" -> RefreshTokens
      [] key = "token_expires" -> {StrOfFloat((StartTime + DefaultExpiresIn) * TicksPerSecond)}
      [] key = "api_key" -> {Text("key1"), Text("key2")}
      [] OTHER -> {Text("shop1")}

GarbageFile == [st |-> "garbage", data |-> EmptyDict]

\* ConfigManager.set(key, value)
CMSet ==
    /\ \E key \in Keys : \E value \in StoreValues(key) \cup {Text("")} :
          CalledWith("set", Returns(Set(file, key, value), None, 0), NoResponse, key, value)
    /\ UNCHANGED <<now, oauthBound, hVars, clVars>>

\* ConfigManager.delete(key)
CMDelete ==
    /\ \E key \in Keys :
          CalledWith("delete", Returns(Delete(file, key), None, 0), NoResponse, key, None)
    /\ UNCHANGED <<now, oauthBound, hVars, clVars>>

\* ConfigManager.clear_all()
CMClearAll ==
    /\ Called("clear_all", Returns(MissingFile, None, 0), NoResponse)
    /\ UNCHANGED <<now, oauthBound, hVars, clVars>>

\* the ciphertext of one entry stops decrypting (tampering, or a replaced .key)
EnvCorruptEntry ==
    /\ file.st = "json"
    /\ \E key \in DOMAIN file.data :
          Called("corrupt_entry",
                 Returns(JsonFile([file.data EXCEPT ![key] = BadCipher]), None, 0),
                 NoResponse)
    /\ UNCHANGED <<now, oauthBound, hVars, clVars>>

\* config.json stops being valid JSON
EnvCorruptFile ==
    /\ file.st = "json"
    /\ Called("corrupt_file", Returns(GarbageFile, None, 0), NoResponse)
    /\ UNCHANGED <<now, oauthBound, hVars, clVars>>

NextStore ==
    \/ CMSet
    \/ CMDelete
    \/ CMClearAll
    \/ TMSaveTokens
    \/ TMClearTokens
    \/ EnvCorruptEntry
    \/ EnvCorruptFile

SpecStore == Init /\ [][NextStore]_vars

-----------------------------------------------------------------------------
(* One writer and one reader of config.json: the steps of a write *)

\* the documents set, save_tokens and delete are about to write
WriteTargets(f) ==
    {Set(f, "api_key", value) : value \in {Text("key1"), Text("key2")}}
        \cup {SaveTokens(f, TokenBody(Text("atA"), rt, Num(DefaultExpiresIn)),
                          StartTime * TicksPerSecond) : rt \in {Text("rtA"), None}}

\* set(key, value) or save_tokens(token_data) reaches open(config_path, 'w')
\* in save_credentials: the merged document is ready, the file is truncated
WOpen ==
    /\ wr.pc = "idle"
    /\ \E new \in WriteTargets(file) :
          wr' = [pc |-> "opened", old |-> file, new |-> new]
    /\ file' = EmptyFile
    /\ op' = "save_credentials"
    /\ UNCHANGED <<now, oauthBound, pre, preNow, ret, posts, resp, hVars, clVars,
                   argKey, argValue, seen, exVars>>

\* delete(key) of a key that load_credentials() returned: config_path.unlink()
WUnlink ==
    /\ wr.pc = "idle"
    /\ \E key \in DOMAIN LoadCredentials(file) :
          wr' = [pc |-> "unlinked", old |-> file, new |-> Delete(file, key)]
    /\ file' = MissingFile
    /\ op' = "delete"
    /\ UNCHANGED <<now, oauthBound, pre, preNow, ret, posts, resp, hVars, clVars,
                   argKey, argValue, seen, exVars>>

\* delete(key) goes on to save_credentials(creds), which opens the file
WReopen ==
    /\ wr.pc = "unlinked"
    /\ wr' = [wr EXCEPT !.pc = "opened"]
    /\ file' = EmptyFile
    /\ UNCHANGED <<now, oauthBound, op, pre, preNow, ret, posts, resp, hVars, clVars,
                   argKey, argValue, seen, exVars>>

\* json.dump has written the first part of the document to the file
WDumpPart ==
    /\ wr.pc = "opened"
    /\ wr' = [wr EXCEPT !.pc = "writing"]
    /\ file' = PartialFile
    /\ UNCHANGED <<now, oauthBound, op, pre, preNow, ret, posts, resp, hVars, clVars,
                   argKey, argValue, seen, exVars>>

\* json.dump has written the rest and the with block closes the file
WClose ==
    /\ wr.pc \in {"opened", "writing"}
    /\ wr' = [wr EXCEPT !.pc = "idle"]
    /\ file' = wr.new
    /\ UNCHANGED <<now, oauthBound, op, pre, preNow, ret, posts, resp, hVars, clVars,
                   argKey, argValue, seen, exVars>>

\* another ConfigManager on the same directory reads config.json
ReaderLoad ==
    /\ seen' = file
    /\ op' = "reader_load"
    /\ UNCHANGED <<file, now, oauthBound, pre, preNow, ret, posts, resp, hVars, clVars,
                   argKey, argValue, wr, exVars>>

NextWrite ==
    \/ WOpen
    \/ WUnlink
    \/ WReopen
    \/ WDumpPart
    \/ WClose
    \/ ReaderLoad

SpecWrite == Init /\ [][NextWrite]_vars

-----------------------------------------------------------------------------
(* UploadService.upload_products *)

\* rows of the product DataFrame
MaxRows == 3

\* a row: its title, whether it names an image URL, and the call that raises
\* when upload_products makes it for this row ("none": no call raises)
RowTitles == {"Mug", "Vase", "INSTRUCTIONS: fill in"}
RowKinds ==
    {[image |-> FALSE, fault |-> "none"], [image |-> TRUE, fault |-> "none"],
     [image |-> FALSE, fault |-> "create_listing"], [image |-> TRUE, fault |-> "publish_listing"],
     [image |-> FALSE, fault |-> "publish_listing"]}
Rows == {[title |-> t, image |-> k.image, fault |-> k.fault] : t \in RowTitles, k \in RowKinds}
DataFrames == UNION {[1..n -> Rows] : n \in 1..MaxRows}

\* _filter_valid_products(df): rows that are not instruction rows
FilterValidProducts(df) ==
    SelectSeq(df, LAMBDA row : row.title \notin {"INSTRUCTIONS: fill in"})

\* the body of the loop for one product: the entry appended to results.
\* create_listing, then the image upload when the row names a URL, then
\* publish_listing when an image was uploaded; the first call that raises
\* ends the try block
ProcessProduct(product) ==
    IF product.fault = "create_listing"
    THEN [success |-> FALSE, title |-> product.title, status |-> "Failed"]
    ELSE LET images_uploaded == IF product.image THEN 1 ELSE 0
         IN  IF images_uploaded > 0
             THEN IF product.fault = "publish_listing"
                  THEN [success |-> FALSE, title |-> product.title, status |-> "Failed"]
                  ELSE [success |-> TRUE, title |-> product.title, status |-> "Published"]
             ELSE [success |-> TRUE, title |-> product.title, status |-> "Draft (no images)"]

\* sum(1 for r in results if r['success'] = b)
CountResults(results, b) == Len(SelectSeq(results, LAMBDA r : r.success = b))

\* a service about to be given the DataFrame df, the pre-loop setup (shop
\* lookup, shipping profile, return policy) succeeding or not
InitUpload ==
    /\ file = MissingFile
    /\ now = StartTime * TicksPerSecond
    /\ oauthBound = FALSE
    /\ hVerifier = None
    /\ hState = None
    /\ query = <<>>
    /\ argVerifier = None
    /\ sentVerifier = None
    /\ attempt = NoAttempt
    /\ prevAttempt = NoAttempt
    /\ op = "init"
    /\ pre = MissingFile
    /\ preNow = StartTime * TicksPerSecond
    /\ ret = NoRet
    /\ posts = 0
    /\ resp = NoResponse
    /\ pc = "idle"
    /\ lastRequestTime = 0
    /\ httpCalls = 0
    /\ sentToken = None
    /\ requests = 0
    /\ args = NoArgs
    /\ sends = <<>>
    /\ answers = <<>>
    /\ sleeps = <<>>
    /\ rate = NoRate
    /\ argKey = ""
    /\ argValue = None
    /\ wr = NoWrite
    /\ seen = MissingFile
    /\ pkce = NoPkce
    /\ rq = NoRetry
    /\ app = NoApp
    /\ \E df \in DataFrames, setup \in BOOLEAN :
          up = [NoUpload EXCEPT !.df = df, !.setup = setup]

\* upload_products(df) up to the loop: the shop id, the valid products, the
\* shipping profile and the return policy; a failure returns at once
UploadBegin ==
    /\ up.pc = "idle"
    /\ op = "init"
    /\ op' = "upload_products"
    /\ LET products == FilterValidProducts(up.df)
       IN  IF ~up.setup \/ Len(products) = 0
           THEN up' = [up EXCEPT !.pc = "done", !.products = products]
           ELSE up' = [up EXCEPT !.pc = "loop", !.products = products]
    /\ UNCHANGED <<file, now, oauthBound, pre, preNow, ret, posts, resp, hVars, clVars,
                   argKey, argValue, wr, seen, pkce, rq, app>>

\* one pass of the loop that returns from the except block
UploadItem_AbortOnFailure ==
    /\ up.pc = "loop"
    /\ Len(up.results) < Len(up.products)
    /\ LET entry == ProcessProduct(up.products[Len(up.results) + 1])
           results == Append(up.results, entry)
       IN  IF entry.success
           THEN up' = [up EXCEPT !.results = results]
           ELSE up' = [up EXCEPT !.pc = "done", !.results = results,
                          !.ret = [success |-> TRUE, total |-> Len(up.products),
                                   successful |-> CountResults(results, TRUE),
                                   failed |-> CountResults(results, FALSE)]]
    /\ now' = now + TicksPerSecond
    /\ UNCHANGED <<file, oauthBound, op, pre, preNow, ret, posts, resp, hVars, clVars,
                   argKey, argValue, wr, seen, pkce, rq, app>>

\* one pass of the loop: the next product is processed, its entry appended,
\* and time.sleep(1)
UploadItem ==
    /\ up.pc = "loop"
    /\ Len(up.results) < Len(up.products)
    /\ up' = [up EXCEPT !.results =
                 Append(up.results, ProcessProduct(up.products[Len(up.results) + 1]))]
    /\ now' = now + TicksPerSecond
    /\ UNCHANGED <<file, oauthBound, op, pre, preNow, ret, posts, resp, hVars, clVars,
                   argKey, argValue, wr, seen, pkce, rq, app>>

\* the loop has ended: the summary is returned
UploadReturn ==
    /\ up.pc = "loop"
    /\ Len(up.results) = Len(up.products)
    /\ up' = [up EXCEPT !.pc = "done",
                        !.ret = [success |-> TRUE, total |-> Len(up.products),
                                 successful |-> CountResults(up.results, TRUE),
                                 failed |-> CountResults(up.results, FALSE)]]
    /\ UNCHANGED <<file, now, oauthBound, op, pre, preNow, ret, posts, resp, hVars, clVars,
                   argKey, argValue, wr, seen, pkce, rq, app>>

NextUpload ==
    \/ UploadBegin
    \/ UploadItem
    \/ UploadReturn

SpecUpload == InitUpload /\ [][NextUpload]_vars

-----------------------------------------------------------------------------
(* PKCE: EtsyOAuthHandler.generate_pkce and utils.helpers *)

\* secrets.token_bytes(96)
TokenBytes == 96
\* the byte strings drawn: byte i is (stride * i + seed) % 256
MaxSeed == 40
ByteStrides == {0, 1, 85}
RandomBytes(n) ==
    {[i \in 1..n |-> (stride * i + seed) % 256] : stride \in ByteStrides, seed \in 0..MaxSeed}

\* the URL-safe base64 alphabet
B64Alphabet ==
    <<"A", "B", "C", "D", "E", "F", "G", "H", "I", "J", "K", "L", "M",
      "N", "O", "P", "Q", "R", "S", "T", "U", "V", "W", "X", "Y", "Z",
      "a", "b", "c", "d", "e", "f", "g", "h", "i", "j", "k", "l", "m",
      "n", "o", "p", "q", "r", "s", "t", "u", "v", "w", "x", "y", "z",
      "0", "1", "2", "3", "4", "5", "6", "7", "8", "9", "-", "_">>

\* base64.urlsafe_b64encode(bytes): four characters per three bytes, six
\* bits each; the last group is filled with zero bits and padded with "="
UrlsafeB64Encode(bytes) ==
    LET n == Len(bytes)
        groups == (n + 2) \div 3
        Byte(i) == IF i <= n THEN bytes[i] ELSE 0
        Value(g) == Byte(3 * g - 2) * 65536 + Byte(3 * g - 1) * 256 + Byte(3 * g)
        Sextet(g, j) ==
            IF j = 0 THEN Value(g) \div 262144
            ELSE IF j = 1 THEN (Value(g) \div 4096) % 64
            ELSE IF j = 2 THEN (Value(g) \div 64) % 64
            ELSE Value(g) % 64
        Padded(g, j) == g = groups /\ n % 3 # 0 /\ j > n % 3
    IN  [k \in 1..(4 * groups) |->
            LET g == ((k - 1) \div 4) + 1
                j == (k - 1) % 4
            IN  IF Padded(g, j) THEN "=" ELSE B64Alphabet[Sextet(g, j) + 1]]

\* text.rstrip('=')
RECURSIVE RStripPad(_)
RStripPad(text) ==
    IF Len(text) > 0 /\ text[Len(text)] = "="
    THEN RStripPad(SubSeq(text, 1, Len(text) - 1))
    ELSE text

\* text.encode('utf-8') for a text over the base64 alphabet: one byte per
\* character, its ASCII code
CharCode(c) ==
    LET i == CHOOSE j \in 1..64 : B64Alphabet[j] = c
    IN  IF i <= 26 THEN 64 + i
        ELSE IF i <= 52 THEN 96 + (i - 26)
        ELSE IF i <= 62 THEN 47 + (i - 52)
        ELSE IF i = 63 THEN 45
        ELSE 95
Utf8Encode(text) == [i \in 1..Len(text) |-> CharCode(text[i])]

\* hashlib.sha256(bytes).digest(): 32 bytes that are a function of the
\* input. The library's compression function is outside this repository;
\* the digest here is a position-weighted checksum, which keeps what the
\* callers rely on: the width, and that it depends on every input byte.
DigestSize == 32
RECURSIVE WeightedSum(_, _, _, _)
WeightedSum(bytes, lo, hi, w) ==
    IF lo > hi THEN 0
    ELSE IF lo = hi THEN (bytes[lo] * (w + lo)) % 256
    ELSE LET mid == (lo + hi) \div 2
         IN  (WeightedSum(bytes, lo, mid, w) + WeightedSum(bytes, mid + 1, hi, w)) % 256
Sha256Digest(bytes) == [i \in 1..DigestSize |-> WeightedSum(bytes, 1, Len(bytes), i)]

\* generate_pkce with the challenge taken over the random bytes
GeneratePkceFrom_HashBytes(verifier_bytes) ==
    [verifier |-> RStripPad(UrlsafeB64Encode(verifier_bytes)),
     challenge |-> RStripPad(UrlsafeB64Encode(Sha256Digest(verifier_bytes)))]

\* generate_pkce(), given the bytes secrets.token_bytes returned
GeneratePkceFrom(verifier_bytes) ==
    LET verifier == RStripPad(UrlsafeB64Encode(verifier_bytes))
        challenge_bytes == Sha256Digest(Utf8Encode(verifier))
    IN  [verifier |-> verifier,
         challenge |-> RStripPad(UrlsafeB64Encode(challenge_bytes))]

\* helpers.generate_pkce_verifier(), given the random bytes
GeneratePkceVerifier(random_bytes) == RStripPad(UrlsafeB64Encode(random_bytes))
\* helpers.generate_pkce_challenge(verifier)
GeneratePkceChallenge(verifier) ==
    RStripPad(UrlsafeB64Encode(Sha256Digest(Utf8Encode(verifier))))

InitPkce ==
    /\ file = MissingFile
    /\ now = StartTime * TicksPerSecond
    /\ oauthBound = FALSE
    /\ hVerifier = None
    /\ hState = None
    /\ query = <<>>
    /\ argVerifier = None
    /\ sentVerifier = None
    /\ attempt = NoAttempt
    /\ prevAttempt = NoAttempt
    /\ op = "init"
    /\ pre = MissingFile
    /\ preNow = StartTime * TicksPerSecond
    /\ ret = NoRet
    /\ posts = 0
    /\ resp = NoResponse
    /\ pc = "idle"
    /\ lastRequestTime = 0
    /\ httpCalls = 0
    /\ sentToken = None
    /\ requests = 0
    /\ args = NoArgs
    /\ sends = <<>>
    /\ answers = <<>>
    /\ sleeps = <<>>
    /\ rate = NoRate
    /\ argKey = ""
    /\ argValue = None
    /\ wr = NoWrite
    /\ seen = MissingFile
    /\ up = NoUpload
    /\ rq = NoRetry
    /\ app = NoApp
    /\ \E bytes \in RandomBytes(TokenBytes) : pkce = [NoPkce EXCEPT !.bytes = bytes]

\* handler.generate_pkce()
PkceGenerate ==
    /\ op = "init"
    /\ op' = "generate_pkce"
    /\ pkce' = [pkce EXCEPT !.ret = GeneratePkceFrom(pkce.bytes)]
    /\ UNCHANGED <<file, now, oauthBound, pre, preNow, ret, posts, resp, hVars, clVars,
                   argKey, argValue, wr, seen, up, rq, app>>

\* helpers.generate_pkce_verifier() followed by generate_pkce_challenge(verifier)
PkceHelpers ==
    /\ op = "init"
    /\ op' = "generate_pkce_challenge"
    /\ LET verifier == GeneratePkceVerifier(pkce.bytes)
       IN  pkce' = [pkce EXCEPT !.ret = [verifier |-> verifier,
                                         challenge |-> GeneratePkceChallenge(verifier)]]
    /\ UNCHANGED <<file, now, oauthBound, pre, preNow, ret, posts, resp, hVars, clVars,
                   argKey, argValue, wr, seen, up, rq, app>>

NextPkce ==
    \/ PkceGenerate
    \/ PkceHelpers

SpecPkce == InitPkce /\ [][NextPkce]_vars

-----------------------------------------------------------------------------
(* EtsyAPIClient.request() *)

\* the rate-limit headers of a response: none, or the four of them
NoHeaders == [name \in {} |-> 0]
RateHeaders ==
    [name \in {"X-Limit-Per-Second", "X-Remaining-This-Second",
               "X-Limit-Per-Day", "X-Remaining-Today"} |->
        CASE name = "X-Limit-Per-Second" -> 10
          [] name = "X-Remaining-This-Second" -> 9
          [] name = "X-Limit-Per-Day" -> 10000
          [] name = "X-Remaining-Today" -> 9999]
ResponseHeaders == {NoHeaders, RateHeaders}
\* the headers of the API's answers to request(): the API sends the four
ApiHeaders == {RateHeaders}

\* _update_rate_limits(headers): the fields of the client after it. The
\* values of X-Remaining-This-Second and X-Limit-Per-Day are parsed into
\* locals and not stored
UpdateRateLimits(rt, headers) ==
    LET remaining_second ==
            IF "X-Remaining-This-Second" \in DOMAIN headers
            THEN headers["X-Remaining-This-Second"] ELSE 0
        daily_limit ==
            IF "X-Limit-Per-Day" \in DOMAIN headers THEN headers["X-Limit-Per-Day"] ELSE 0
    IN  [rt EXCEPT
            !.requests_per_second =
                IF "X-Limit-Per-Second" \in DOMAIN headers
                THEN headers["X-Limit-Per-Second"] ELSE rt.requests_per_second,
            !.requests_today =
                IF "X-Remaining-Today" \in DOMAIN headers
                THEN headers["X-Remaining-Today"] ELSE rt.requests_today]

\* get_rate_limit_status()
DailyLimit == 10000
SecondLimit == 10
GetRateLimitStatus(rt) ==
    [requests_today |-> rt.requests_today, daily_limit |-> DailyLimit,
     requests_per_second |-> rt.requests_per_second, second_limit |-> SecondLimit]

\* status codes the API answers with
Statuses == {200, 400, 401, 403, 404, 429, 500}
\* Retry-After header values, in seconds; None when the header is absent
RetryAfters == {Num(2), None}
\* time between session.request() and its response, in ticks
HttpDurations == {3}
\* time between two calls on the client, in ticks: the throttle delay, 100 s
IdleTimes == {RateLimitDelay, 100 * TicksPerSecond}
\* response.content: a JSON body, or nothing
Contents == {Text("{\"count\": 1}"), None}

\* token bodies a client may start from, and the answers of the token
\* endpoint to the refreshes that request() triggers
ClientInitBodies ==
    {TokenBody(Text("atA"), rt, Num(e)) : rt \in {Text("rtA"), None}, e \in ExpiresIns}
ClientRefreshResponses ==
    {[status |-> 200, body |-> TokenBody(at, rt, Num(400))] :
            at \in {Text("atB")}, rt \in {Text("rtB"), None}}
        \cup {[status |-> 400, body |-> EmptyDict]}

\* _rate_limit() that never sleeps
RateLimitSleep_None(last, t) == 0

\* _rate_limit(): the time slept before last_request_time is set
RateLimitSleep(last, t) ==
    IF t - last < RateLimitDelay THEN RateLimitDelay - (t - last) ELSE 0

\* _get_headers() that sends whatever get_access_token() returned
GetHeaders_NoCheck(f, bound, t, r) == GetAccessToken(f, bound, t, r)

\* _get_headers() at time t: the bearer token, or "Not authenticated"
GetHeaders(f, bound, t, r) ==
    LET o == GetAccessToken(f, bound, t, r)
    IN  IF o.raised THEN o
        ELSE IF ~Truthy(o.val)
             THEN Raises(o.file, "Not authenticated", o.posts)
             ELSE o

\* _handle_error_response(response): the prefix of the raised failure;
\* scope says that the message mentions insufficient_scope
ErrorPrefix(status, scope) ==
    CASE status = 400 -> "Bad Request"
      [] status = 401 -> "Unauthorized"
      [] status = 403 -> IF scope THEN "Insufficient permissions" ELSE "Forbidden"
      [] status = 404 -> "Not Found"
      [] OTHER -> "API Error"

\* the requests made in a run: a GET with query parameters and a POST with
\* a form body
ClientArgs ==
    {RequestArgs("GET", "/shops/1/listings", Absent, Absent, Absent,
                 Given(<<[k |-> <<"l", "i", "m", "i", "t">>, v |-> FInt(25)]>>)),
     RequestArgs("POST", "/shops/1/listings",
                 Given(<<[k |-> <<"t", "a", "g", "s">>, v |-> FList(<<FStr(<<"a", " ", "b">>)>>)]>>),
                 Absent, Absent, Absent)}

\* response.json() of the bodies the API answers with
ResponseJson(content) ==
    IF content = Text("{\"count\": 1}") THEN [count |-> Num(1)] ELSE EmptyDict

\* int(response.headers.get('Retry-After', 60))
RetryAfterSeconds(ra) == IF ra = None THEN DefaultRetryAfter ELSE ra.num

\* the arguments of the retry after a 429 when the body arguments are left out
RetryArgs_NoBody(a) == RequestArgs(a.method, a.endpoint, Absent, Absent, Absent, a.params)

\* the arguments of the retry after a 429:
\* self.request(method, endpoint, data, json_data, files, params)
RetryArgs(a) == RequestArgs(a.method, a.endpoint, a.data, a.json_data, a.files, a.params)

\* bodies of the error responses: text that is not JSON, and JSON objects
\* with an error of insufficient_scope, with another error and its
\* description, and with a null error
NotJson == [json |-> FALSE, d |-> EmptyDict]
JsonBody(d) == [json |-> TRUE, d |-> d]
ErrorBodies ==
    {NotJson,
     JsonBody([k \in {"error"} |-> Text("insufficient_scope")]),
     JsonBody([k \in {"error", "error_description"} |->
                  IF k = "error" THEN Text("invalid_token") ELSE Text("token expired")]),
     JsonBody([k \in {"error"} |-> None])}

\* the message _handle_error_response builds: whether it is a str, and
\* whether it contains 'insufficient_scope'
ErrorMessage(body) ==
    IF ~body.json
    THEN [isStr |-> TRUE, scope |-> FALSE]
    ELSE LET error == DictGet(body.d, "error", Text("Unknown error"))
             error_desc == DictGet(body.d, "error_description", Text(""))
         IN  IF Truthy(error_desc)
             THEN [isStr |-> TRUE,
                   scope |-> Text("insufficient_scope") \in {error, error_desc}]
             ELSE [isStr |-> error.kind = "text",
                   scope |-> error = Text("insufficient_scope")]

\* _handle_error_response(response): what is raised. The test
\* 'insufficient_scope' in message raises TypeError when message is no str
HandleErrorResponse(status, body) ==
    LET message == ErrorMessage(body)
    IN  IF status = 403 /\ ~message.isStr
        THEN "TypeError"
        ELSE ErrorPrefix(status, message.scope)

\* request(a) from its first line to session.request(): throttle, headers,
\* send. t is the time of entry, r the token endpoint's answer should a
\* refresh POST, calls the session.request() calls made before in this call
ClientEnter(t, r, calls, a) ==
    LET t1 == t + RateLimitSleep(lastRequestTime, t)
        h == GetHeaders(file, oauthBound, t1, r)
    IN  /\ now' = t1
        /\ lastRequestTime' = t1
        /\ file' = h.file
        /\ args' = a
        /\ IF h.raised
           THEN /\ pc' = "idle"
                /\ ret' = [raised |-> TRUE, err |-> h.err, val |-> None]
                /\ httpCalls' = calls
                /\ sends' = IF calls = 0 THEN <<>> ELSE sends
                /\ UNCHANGED sentToken
           ELSE /\ pc' = "sent"
                /\ ret' = NoRet
                /\ httpCalls' = calls + 1
                /\ sends' = Append(IF calls = 0 THEN <<>> ELSE sends, PrepareRequest(a))
                /\ sentToken' = h.val

\* a call of request(...)
ClientRequest ==
    /\ pc = "idle"
    /\ requests < MaxRequests
    /\ requests' = requests + 1
    /\ op' = "request"
    /\ pre' = file
    /\ preNow' = now
    /\ answers' = <<>>
    /\ sleeps' = <<>>
    /\ \E r \in ClientRefreshResponses, a \in ClientArgs :
          LET h == GetHeaders(file, oauthBound, now + RateLimitSleep(lastRequestTime, now), r)
          IN  /\ ClientEnter(now, r, 0, a)
              /\ posts' = h.posts
              /\ resp' = IF h.posts > 0 THEN r ELSE NoResponse
    /\ UNCHANGED <<oauthBound, hVars, stVars, rate>>

\* the response of session.request() arrives and request() handles it: retry
\* after a 429, raise on another status >= 400, else return the parsed body
ClientResponse ==
    /\ pc = "sent"
    /\ \E status \in Statuses, d \in HttpDurations, headers \in ApiHeaders :
          LET t == now + d
          IN  IF status = 429
              THEN /\ httpCalls < MaxCalls
                   /\ \E ra \in RetryAfters, r \in ClientRefreshResponses :
                         LET retry_after == RetryAfterSeconds(ra)
                             t1 == t + retry_after * TicksPerSecond
                             h == GetHeaders(file, oauthBound, t1 + RateLimitSleep(lastRequestTime, t1), r)
                         IN  /\ rate' = UpdateRateLimits(rate, headers)
                             /\ answers' = Append(answers, [status |-> status, retryAfter |-> ra,
                                                            content |-> None, body |-> NotJson,
                                                            headers |-> headers])
                             /\ sleeps' = Append(sleeps, retry_after)
                             /\ ClientEnter(t1, r, httpCalls, RetryArgs(args))
                             /\ posts' = posts + h.posts
                             /\ resp' = IF h.posts > 0 THEN r ELSE resp
              ELSE /\ now' = t
                   /\ pc' = "idle"
                   /\ rate' = UpdateRateLimits(rate, headers)
                   /\ IF status >= 400
                      THEN \E body \in ErrorBodies :
                              /\ answers' = Append(answers, [status |-> status, retryAfter |-> None,
                                                             content |-> None, body |-> body,
                                                             headers |-> headers])
                              /\ ret' = [raised |-> TRUE, err |-> HandleErrorResponse(status, body),
                                         val |-> None]
                      ELSE \E content \in Contents :
                              /\ answers' = Append(answers, [status |-> status, retryAfter |-> None,
                                                             content |-> content, body |-> NotJson,
                                                             headers |-> headers])
                              /\ ret' = [raised |-> FALSE, err |-> "",
                                         val |-> IF content # None THEN ResponseJson(content) ELSE None]
                   /\ UNCHANGED <<file, lastRequestTime, httpCalls, sentToken, posts, resp,
                                  args, sends, sleeps>>
    /\ UNCHANGED <<op, pre, preNow, oauthBound, hVars, requests, stVars>>

\* the client is built on a TokenManager that is either fresh or holds the
\* tokens of an exchange completed at construction time
InitClient ==
    /\ file \in {MissingFile}
            \cup {SaveTokens(MissingFile, b, StartTime * TicksPerSecond) : b \in ClientInitBodies}
    /\ now = StartTime * TicksPerSecond
    /\ oauthBound \in BOOLEAN
    /\ hVerifier = None
    /\ hState = None
    /\ query = <<>>
    /\ argVerifier = None
    /\ sentVerifier = None
    /\ attempt = NoAttempt
    /\ prevAttempt = NoAttempt
    /\ op = "init"
    /\ pre = file
    /\ preNow = now
    /\ ret = NoRet
    /\ posts = 0
    /\ resp = NoResponse
    /\ pc = "idle"
    /\ lastRequestTime = 0
    /\ httpCalls = 0
    /\ sentToken = None
    /\ requests = 0
    /\ args = NoArgs
    /\ sends = <<>>
    /\ answers = <<>>
    /\ sleeps = <<>>
    /\ rate = NoRate
    /\ argKey = ""
    /\ argValue = None
    /\ wr = NoWrite
    /\ seen = MissingFile
    /\ up = NoUpload
    /\ pkce = NoPkce
    /\ rq = NoRetry
    /\ app = NoApp

\* time passes after a request() call has ended
ClientIdle ==
    /\ pc = "idle"
    /\ op = "request"
    /\ \E d \in IdleTimes : now' = now + d
    /\ op' = "idle"
    /\ pre' = file
    /\ preNow' = now'
    /\ ret' = NoRet
    /\ posts' = 0
    /\ resp' = NoResponse
    /\ args' = NoArgs
    /\ sends' = <<>>
    /\ answers' = <<>>
    /\ sleeps' = <<>>
    /\ UNCHANGED <<file, oauthBound, hVars, pc, lastRequestTime, httpCalls, sentToken,
                   requests, rate, stVars>>

NextClient ==
    \/ ClientIdle
    \/ TMClearTokens
    \/ ClientRequest
    \/ ClientResponse

SpecClient == InitClient /\ [][NextClient]_vars

-----------------------------------------------------------------------------
(* The call stack of request(): each retry after a 429 is a nested call *)

\* the interpreter's limit on nested calls (sys.getrecursionlimit(), which
\* the application never changes)
RecursionLimit == 1000
\* frames on the stack when the application calls request()
CallerFrames == {20, 35, 50}
\* statuses and Retry-After values of a server that throttles
RetryStatuses == {200, 429, 500}
ImmediateRetryAfters == {Num(0)}

\* request() from its first line to session.request(), in a frame of its
\* own: throttle, headers, send. q is the stack as the call is made
RetryEnter(t, r, q) ==
    LET t1 == t + RateLimitSleep(lastRequestTime, t)
        h == GetHeaders(file, oauthBound, t1, r)
    IN  /\ now' = t1
        /\ lastRequestTime' = t1
        /\ file' = h.file
        /\ IF h.raised
           THEN /\ rq' = [q EXCEPT !.pc = "returned", !.raised = TRUE, !.err = h.err]
                /\ UNCHANGED sentToken
           ELSE /\ rq' = [q EXCEPT !.pc = "sent", !.calls = q.calls + 1]
                /\ sentToken' = h.val

\* the application calls request()
RetryRequest ==
    /\ rq.pc = "idle"
    /\ op' = "request"
    /\ \E r \in ClientRefreshResponses : RetryEnter(now, r, [rq EXCEPT !.frames = rq.frames + 1])
    /\ UNCHANGED <<oauthBound, pre, preNow, ret, posts, resp, hVars, pc, httpCalls, requests,
                   args, sends, answers, sleeps, rate, argKey, argValue, wr, seen, up, pkce, app>>

\* the response arrives. After a 429 and the sleep, request() calls itself:
\* the nested call takes one more frame and needs at least one for the
\* calls it makes, and RecursionError is raised when the limit does not
\* leave them. It is no RequestException and propagates to the caller.
RetryResponse ==
    /\ rq.pc = "sent"
    /\ \E headers \in ResponseHeaders : rate' = UpdateRateLimits(rate, headers)
    /\ \E status \in RetryStatuses, d \in HttpDurations :
          LET t == now + d
          IN  IF status = 429
              THEN \E ra \in ImmediateRetryAfters, r \in ClientRefreshResponses :
                      LET t1 == t + RetryAfterSeconds(ra) * TicksPerSecond
                      IN  IF rq.frames + 1 >= RecursionLimit
                          THEN /\ rq' = [rq EXCEPT !.pc = "returned", !.status = status,
                                                   !.n429 = rq.n429 + 1,
                                                   !.raised = TRUE, !.err = "RecursionError"]
                               /\ now' = t1
                               /\ UNCHANGED <<file, lastRequestTime, sentToken>>
                          ELSE RetryEnter(t1, r, [rq EXCEPT !.frames = rq.frames + 1,
                                                            !.status = status,
                                                            !.n429 = rq.n429 + 1])
              ELSE /\ now' = t
                   /\ rq' = [rq EXCEPT !.pc = "returned", !.status = status,
                                       !.raised = (status >= 400),
                                       !.err = IF status >= 400
                                               THEN HandleErrorResponse(status, NotJson) ELSE ""]
                   /\ UNCHANGED <<file, lastRequestTime, sentToken>>
    /\ UNCHANGED <<oauthBound, op, pre, preNow, ret, posts, resp, hVars, pc, httpCalls, requests,
                   args, sends, answers, sleeps, argKey, argValue, wr, seen, up, pkce, app>>

\* a client holding a token that is far from its refresh window
InitRetry ==
    /\ file = SaveTokens(MissingFile, TokenBody(Text("atA"), Text("rtA"), Num(DefaultExpiresIn)),
                         StartTime * TicksPerSecond)
    /\ now = StartTime * TicksPerSecond
    /\ oauthBound = TRUE
    /\ hVerifier = None
    /\ hState = None
    /\ query = <<>>
    /\ argVerifier = None
    /\ sentVerifier = None
    /\ attempt = NoAttempt
    /\ prevAttempt = NoAttempt
    /\ op = "init"
    /\ pre = MissingFile
    /\ preNow = StartTime * TicksPerSecond
    /\ ret = NoRet
    /\ posts = 0
    /\ resp = NoResponse
    /\ pc = "idle"
    /\ lastRequestTime = 0
    /\ httpCalls = 0
    /\ sentToken = None
    /\ requests = 0
    /\ args = NoArgs
    /\ sends = <<>>
    /\ answers = <<>>
    /\ sleeps = <<>>
    /\ rate = NoRate
    /\ argKey = ""
    /\ argValue = None
    /\ wr = NoWrite
    /\ seen = MissingFile
    /\ up = NoUpload
    /\ pkce = NoPkce
    /\ app = NoApp
    /\ \E frames \in CallerFrames : rq = [NoRetry EXCEPT !.frames = frames]

NextRetry ==
    \/ RetryRequest
    \/ RetryResponse

SpecRetry == InitRetry /\ [][NextRetry]_vars

-----------------------------------------------------------------------------
(* The encoding of a request on its own: any combination of body arguments *)

\* form data: keys a and b, in either order, holding None, text, numbers and
\* lists
FormKeys == {<<"a">>, <<"b">>}
FormItems == {FInt(1), FInt(2), FStr(<<"y", " ", "z">>)}
FormLists == {FList(l) : l \in UNION {[1..n -> FormItems] : n \in 0..MaxItems}}
FormScalars == {FNone, FStr(<<>>), FStr(<<"x">>), FStr(<<"a", "&", "b">>), FInt(12)}
FormValues == FormScalars \cup FormLists
FormDicts ==
    {d \in UNION {[1..n -> [k : FormKeys, v : FormValues]] : n \in 0..Cardinality(FormKeys)} :
        \A i, j \in 1..Len(d) : i # j => d[i].k # d[j].k}

\* the data, json_data, files and params arguments: None, {} or a dict
DataArgs == {Absent, Given(<<>>), Given(<<[k |-> <<"r", "a", "n", "k">>, v |-> FStr(<<"1">>)]>>)}
JsonArgs ==
    {Absent, Given(<<>>),
     Given(<<[k |-> <<"s", "k", "u">>, v |-> FStr(<<"A", "1">>)],
             [k |-> <<"q", "t", "y">>, v |-> FList(<<FInt(1), FInt(20)>>)]>>)}
FileArgs == {Absent, Given(<<>>), Given(<<[k |-> <<"i", "m", "a", "g", "e">>, v |-> FStr(<<"J", "P", "G">>)]>>)}
ParamArgs == {Absent, Given(<<[k |-> <<"l", "i", "m", "i", "t">>, v |-> FInt(25)]>>)}

PrepareInputs ==
    {RequestArgs("POST", "/shops/1/listings", Given(d), Absent, Absent, Absent) : d \in FormDicts}
        \cup {RequestArgs(m, "/shops/1/listings/2", data, json_data, files, params) :
                m \in {"POST", "PUT"}, data \in DataArgs, json_data \in JsonArgs,
                files \in FileArgs, params \in ParamArgs}

\* a client about to be given the arguments args
InitPrepare ==
    /\ file = MissingFile
    /\ now = StartTime * TicksPerSecond
    /\ oauthBound = FALSE
    /\ hVerifier = None
    /\ hState = None
    /\ query = <<>>
    /\ argVerifier = None
    /\ sentVerifier = None
    /\ attempt = NoAttempt
    /\ prevAttempt = NoAttempt
    /\ op = "init"
    /\ pre = MissingFile
    /\ preNow = StartTime * TicksPerSecond
    /\ ret = NoRet
    /\ posts = 0
    /\ resp = NoResponse
    /\ pc = "idle"
    /\ lastRequestTime = 0
    /\ httpCalls = 0
    /\ sentToken = None
    /\ requests = 0
    /\ args \in PrepareInputs
    /\ sends = <<>>
    /\ answers = <<>>
    /\ sleeps = <<>>
    /\ rate = NoRate
    /\ argKey = ""
    /\ argValue = None
    /\ wr = NoWrite
    /\ seen = MissingFile
    /\ up = NoUpload
    /\ pkce = NoPkce
    /\ rq = NoRetry
    /\ app = NoApp

\* request(args) builds the keyword arguments of session.request()
PrepRequest ==
    /\ op = "init"
    /\ op' = "request"
    /\ sends' = <<PrepareRequest(args)>>
    /\ UNCHANGED <<file, now, oauthBound, pre, preNow, ret, posts, resp, hVars, stVars,
                   pc, lastRequestTime, httpCalls, sentToken, requests, args, answers, sleeps, rate>>

\* _encode_form_data(args.data)
PrepEncode ==
    /\ op = "init"
    /\ args.data.given
    /\ op' = "_encode_form_data"
    /\ ret' = [raised |-> FALSE, err |-> "", val |-> FStr(EncodeFormData(args.data.d))]
    /\ UNCHANGED <<file, now, oauthBound, pre, preNow, posts, resp, hVars, clVars, stVars>>

NextPrepare ==
    \/ PrepRequest
    \/ PrepEncode

SpecPrepare == InitPrepare /\ [][NextPrepare]_vars

-----------------------------------------------------------------------------
(* EtsyOAuthHandler *)

Ok(v) == [raised |-> FALSE, err |-> "", val |-> v]
Fail(e) == [raised |-> TRUE, err |-> e, val |-> None]
\* a failure whose message carries the server's error and error_description
FailWith(e, error, desc) == [raised |-> TRUE, err |-> e, val |-> [error |-> error, desc |-> desc]]

\* values of secrets.token_bytes / secrets.token_urlsafe
Verifiers == {Text("v1"), Text("v2")}
CsrfStates == {Text("s1"), Text("s2")}
\* the verifier and state that one get_auth_url() call draws
AuthAttempts ==
    {[verifier |-> Text("v1"), state |-> Text("s1")],
     [verifier |-> Text("v2"), state |-> Text("s2")]}

\* query strings of redirect URLs: sequences of name=value pairs
ParamNames == {"code", "state", "error", "error_description"}
ParamValues(name) ==
    CASE name = "code" -> {"", "c1"}
      [] name = "state" -> {"", "s1", "s2"}
      [] name = "error" -> {"", "access_denied"}
      [] name = "error_description" -> {"user said no"}
Params == UNION {[k : {name}, v : ParamValues(name)] : name \in ParamNames}
Queries == UNION {[1..n -> Params] : n \in 0..MaxParams}

\* parse_qs(parsed.query): name -> list of its non-blank values, in order
ParseQs(q) ==
    LET values(name) == SelectSeq(q, LAMBDA p : p.k = name /\ p.v # "")
    IN  [name \in {n \in ParamNames : values(n) # <<>>} |->
            [i \in 1..Len(values(name)) |-> values(name)[i].v]]

\* extract_code_from_url(redirect_url) that does not look for an error parameter
ExtractCodeFromUrl_NoErrorCheck(q, st) ==
    LET params == ParseQs(q)
    IN  IF "code" \notin DOMAIN params
        THEN Fail("No authorization code found in URL")
        ELSE IF /\ "state" \in DOMAIN params
                /\ Truthy(st)
                /\ Text(params["state"][1]) # st
        THEN Fail("State parameter mismatch - possible CSRF attack")
        ELSE Ok(Text(params["code"][1]))

\* extract_code_from_url(redirect_url) with self._state = st
ExtractCodeFromUrl(q, st) ==
    LET params == ParseQs(q)
    IN  IF "error" \in DOMAIN params
        THEN FailWith("OAuth error", params["error"][1],
                      DictGet(params, "error_description", <<"Unknown error">>)[1])
        ELSE IF "code" \notin DOMAIN params
        THEN Fail("No authorization code found in URL")
        ELSE IF /\ "state" \in DOMAIN params
                /\ Truthy(st)
                /\ Text(params["state"][1]) # st
        THEN Fail("State parameter mismatch - possible CSRF attack")
        ELSE Ok(Text(params["code"][1]))

\* answers of the token endpoint to an exchange: those to a refresh, and a
\* non-200 answer whose JSON body names the error
ErrorBody == [k \in {"error", "error_description"} |->
                IF k = "error" THEN Text("invalid_grant") ELSE Text("code expired")]
ExchangeResponses == TokenResponses \cup {[status |-> 400, body |-> ErrorBody]}

\* exchange_code_for_token(code, verifier) that clears the stored values
\* before it looks at the status of the answer
ExchangeCodeForToken_ClearFirst(verifier, stored, storedState, r) ==
    LET v == IF ~Truthy(verifier) THEN stored ELSE verifier
    IN  IF ~Truthy(v)
        THEN [ret |-> Fail("PKCE verifier not found. Call get_auth_url() first."),
              posts |-> 0, sent |-> None, verifier |-> stored, state |-> storedState]
        ELSE IF r.status # 200
        THEN [ret |-> FailWith("Token exchange failed",
                               DictGet(r.body, "error", Text("Unknown error")),
                               DictGet(r.body, "error_description", Text("No description"))),
              posts |-> 1, sent |-> v, verifier |-> None, state |-> None]
        ELSE [ret |-> Ok(r.body), posts |-> 1, sent |-> v, verifier |-> None, state |-> None]

\* exchange_code_for_token(code, verifier) with self._verifier = stored and
\* self._state = storedState, the token endpoint answering r:
\* [ret, posts, sent, verifier, state], the last two the stored values after
ExchangeCodeForToken(verifier, stored, storedState, r) ==
    LET v == IF ~Truthy(verifier) THEN stored ELSE verifier
    IN  IF ~Truthy(v)
        THEN [ret |-> Fail("PKCE verifier not found. Call get_auth_url() first."),
              posts |-> 0, sent |-> None, verifier |-> stored, state |-> storedState]
        ELSE IF r.status # 200
        THEN [ret |-> FailWith("Token exchange failed",
                               DictGet(r.body, "error", Text("Unknown error")),
                               DictGet(r.body, "error_description", Text("No description"))),
              posts |-> 1, sent |-> v, verifier |-> stored, state |-> storedState]
        ELSE [ret |-> Ok(r.body), posts |-> 1, sent |-> v, verifier |-> None, state |-> None]

\* bookkeeping of a call on the handler
HCalled(name, q, o, n, r) ==
    /\ pc = "idle"
    /\ op' = name
    /\ query' = q
    /\ ret' = o
    /\ posts' = n
    /\ resp' = r
    /\ UNCHANGED <<file, now, oauthBound, pre, preNow, clVars, stVars>>

\* get_auth_url() that keeps a verifier and state it already stores
HGetAuthUrl_KeepFirst ==
    \E a \in AuthAttempts :
        /\ hVerifier' = IF Truthy(hVerifier) THEN hVerifier ELSE a.verifier
        /\ hState' = IF Truthy(hState) THEN hState ELSE a.state
        /\ attempt' = a
        /\ prevAttempt' = attempt
        /\ HCalled("get_auth_url", <<>>, Ok(a.state), 0, NoResponse)
        /\ argVerifier' = None
        /\ sentVerifier' = None

\* get_auth_url(): a fresh verifier and state replace the stored ones
HGetAuthUrl ==
    \E a \in AuthAttempts :
        /\ hVerifier' = a.verifier
        /\ hState' = a.state
        /\ attempt' = a
        /\ prevAttempt' = attempt
        /\ HCalled("get_auth_url", <<>>, Ok(a.state), 0, NoResponse)
        /\ argVerifier' = None
        /\ sentVerifier' = None

\* extract_code_from_url(redirect_url)
HExtractCode ==
    \E q \in Queries :
        /\ HCalled("extract_code_from_url", q, ExtractCodeFromUrl(q, hState), 0, NoResponse)
        /\ argVerifier' = None /\ sentVerifier' = None
        /\ UNCHANGED <<hVerifier, hState, attempt, prevAttempt>>

\* exchange_code_for_token(code, verifier), the token endpoint answering r;
\* a completed exchange leaves no attempt outstanding
HExchangeCode ==
    \E verifier \in Verifiers \cup {None}, r \in ExchangeResponses :
        LET o == ExchangeCodeForToken(verifier, hVerifier, hState, r)
        IN  /\ HCalled("exchange_code_for_token", <<>>, o.ret, o.posts,
                       IF o.posts > 0 THEN r ELSE NoResponse)
            /\ argVerifier' = verifier
            /\ sentVerifier' = o.sent
            /\ hVerifier' = o.verifier
            /\ hState' = o.state
            /\ IF o.ret.raised
               THEN UNCHANGED <<attempt, prevAttempt>>
               ELSE attempt' = NoAttempt /\ prevAttempt' = NoAttempt

\* refresh_token(refresh_token) that ends the handshake in progress
HRefreshToken_EndsHandshake ==
    \E r \in TokenResponses :
        LET o == HandlerRefreshToken(file, r)
        IN  /\ HCalled("refresh_token", <<>>,
                       [raised |-> o.raised, err |-> o.err, val |-> None], o.posts, r)
            /\ argVerifier' = None /\ sentVerifier' = None
            /\ hVerifier' = None
            /\ hState' = None
            /\ UNCHANGED <<attempt, prevAttempt>>

\* refresh_token(refresh_token), the token endpoint answering r
HRefreshToken ==
    \E r \in TokenResponses :
        LET o == HandlerRefreshToken(file, r)
        IN  /\ HCalled("refresh_token", <<>>,
                       [raised |-> o.raised, err |-> o.err, val |-> None], o.posts, r)
            /\ argVerifier' = None /\ sentVerifier' = None
            /\ UNCHANGED <<hVerifier, hState, attempt, prevAttempt>>

NextOAuth ==
    \/ HGetAuthUrl
    \/ HExtractCode
    \/ HExchangeCode
    \/ HRefreshToken

SpecOAuth == Init /\ [][NextOAuth]_vars

-----------------------------------------------------------------------------
(* The application's connect flow: EtsyShopManager._show_oauth_flow *)

\* EtsyOAuthHandler(api_key): the values a new handler stores
NewHandler == [verifier |-> None, state |-> None]

\* a render of the flow in which Submit was not clicked: a new handler is
\* built, and it generates the authorization URL unless the session already
\* holds oauth_auth_data
AppRender ==
    /\ ~app.authenticated
    /\ pc = "idle"
    /\ op' = "render"
    /\ IF ~app.authData.set
       THEN \E a \in AuthAttempts :
               /\ hVerifier' = a.verifier
               /\ hState' = a.state
               /\ attempt' = a
               /\ prevAttempt' = attempt
               /\ app' = [app EXCEPT !.authData = [set |-> TRUE, verifier |-> a.verifier,
                                                   state |-> a.state]]
       ELSE /\ hVerifier' = NewHandler.verifier
            /\ hState' = NewHandler.state
            /\ UNCHANGED <<attempt, prevAttempt, app>>
    /\ query' = <<>>
    /\ ret' = NoRet
    /\ posts' = 0
    /\ resp' = NoResponse
    /\ argVerifier' = None
    /\ sentVerifier' = None
    /\ UNCHANGED <<file, now, oauthBound, pre, preNow, clVars, argKey, argValue, wr, seen,
                   up, pkce, rq>>

\* a render in which Submit was clicked, the text input holding a redirect
\* URL with query q or nothing. The button is drawn by an earlier render, so
\* the session holds oauth_auth_data; the handler is the one this render built
AppSubmit ==
    /\ ~app.authenticated
    /\ app.authData.set
    /\ pc = "idle"
    /\ op' = "submit"
    /\ \E q \in Queries, blank \in BOOLEAN, r \in ExchangeResponses :
          LET h == NewHandler
              e == ExtractCodeFromUrl(q, h.state)
              x == ExchangeCodeForToken(app.authData.verifier, h.verifier, h.state, r)
          IN  IF blank
              THEN /\ query' = <<>>
                   /\ ret' = Fail("Please paste the redirect URL")
                   /\ posts' = 0
                   /\ resp' = NoResponse
                   /\ hVerifier' = h.verifier
                   /\ hState' = h.state
                   /\ argVerifier' = None
                   /\ sentVerifier' = None
                   /\ UNCHANGED <<file, now, oauthBound, app>>
              ELSE IF e.raised
              THEN /\ query' = q
                   /\ ret' = e
                   /\ posts' = 0
                   /\ resp' = NoResponse
                   /\ hVerifier' = h.verifier
                   /\ hState' = h.state
                   /\ argVerifier' = None
                   /\ sentVerifier' = None
                   /\ UNCHANGED <<file, now, oauthBound, app>>
              ELSE /\ query' = q
                   /\ ret' = x.ret
                   /\ posts' = x.posts
                   /\ resp' = IF x.posts > 0 THEN r ELSE NoResponse
                   /\ hVerifier' = x.verifier
                   /\ hState' = x.state
                   /\ argVerifier' = app.authData.verifier
                   /\ sentVerifier' = x.sent
                   /\ IF x.ret.raised
                      THEN UNCHANGED <<file, now, oauthBound, app>>
                      ELSE /\ file' = SaveTokens(file, r.body, now)
                           /\ app' = [authData |-> NoAuthData, authenticated |-> TRUE]
                           /\ oauthBound' = TRUE
                           /\ now' = now + TicksPerSecond
    /\ UNCHANGED <<attempt, prevAttempt, pre, preNow, clVars, argKey, argValue, wr, seen,
                   up, pkce, rq>>

\* the application with its API key stored, before the flow is rendered
InitApp ==
    /\ file = Set(MissingFile, "api_key", Text("key1"))
    /\ now = StartTime * TicksPerSecond
    /\ oauthBound = FALSE
    /\ hVerifier = None
    /\ hState = None
    /\ query = <<>>
    /\ argVerifier = None
    /\ sentVerifier = None
    /\ attempt = NoAttempt
    /\ prevAttempt = NoAttempt
    /\ op = "init"
    /\ pre = MissingFile
    /\ preNow = StartTime * TicksPerSecond
    /\ ret = NoRet
    /\ posts = 0
    /\ resp = NoResponse
    /\ pc = "idle"
    /\ lastRequestTime = 0
    /\ httpCalls = 0
    /\ sentToken = None
    /\ requests = 0
    /\ args = NoArgs
    /\ sends = <<>>
    /\ answers = <<>>
    /\ sleeps = <<>>
    /\ rate = NoRate
    /\ argKey = ""
    /\ argValue = None
    /\ wr = NoWrite
    /\ seen = MissingFile
    /\ up = NoUpload
    /\ pkce = NoPkce
    /\ rq = NoRetry
    /\ app = NoApp

NextApp ==
    \/ AppRender
    \/ AppSubmit

SpecApp == InitApp /\ [][NextApp]_vars

-----------------------------------------------------------------------------
(* Claims about TokenManager, checked under SpecToken *)

\* the last call ran TokenManager.refresh() up to its POST
RefreshPosted == op \in {"refresh", "get_access_token"} /\ posts > 0

\* C1: when the stored token needs refresh, a handler is bound and a refresh
\* token is stored, get_access_token() issues exactly one refresh POST, and
\* when that POST is answered 200 it returns the access token of the answer.
C1_RefreshBeforeReturn ==
    (/\ op = "get_access_token"
     /\ NeedsRefresh(pre, preNow)
     /\ oauthBound
     /\ Truthy(GetRefreshToken(pre)))
        => /\ posts = 1
           /\ resp.status = 200 =>
                /\ ~ret.raised
                /\ ret.val = resp.body["access_token"]

C1_Witness ==
    /\ op = "get_access_token"
    /\ NeedsRefresh(pre, preNow)
    /\ oauthBound
    /\ posts = 1
    /\ resp.status = 200
    /\ ret.val = resp.body["access_token"]
    /\ ret.val # Get(pre, "access_token")

\* C2: when the stored token needs refresh and no handler is bound,
\* get_access_token() raises and does not return the stored access token.
C2_NoHandlerRaises ==
    (/\ op = "get_access_token"
     /\ NeedsRefresh(pre, preNow)
     /\ ~oauthBound)
        => /\ ret.raised
           /\ ret.val # Get(pre, "access_token")

\* C3: when the stored token needs refresh, a handler is bound and no refresh
\* token is stored, get_access_token() raises, returns no token and issues no
\* POST to the token endpoint.
C3_NoRefreshTokenRaises ==
    (/\ op = "get_access_token"
     /\ NeedsRefresh(pre, preNow)
     /\ oauthBound
     /\ ~Truthy(GetRefreshToken(pre)))
        => /\ ret.raised
           /\ ret.val = None
           /\ posts = 0
           /\ file = pre

C3_Witness ==
    /\ op = "get_access_token"
    /\ NeedsRefresh(pre, preNow)
    /\ oauthBound
    /\ Get(pre, "access_token") # None
    /\ Get(pre, "refresh_token") = None
    /\ ret.raised
    /\ ret.err = "No refresh token available"

\* C4 as stated: needs_refresh() is false when now < expires_at - 300 and
\* true for every other now, including now = expires_at - 300.
C4_BoundaryTrue ==
    (op = "needs_refresh" /\ GetTokenExpiry(pre) # 0)
        => (ret.val = Bool(FALSE)) = (preNow < GetTokenExpiry(pre) - RefreshWindow)

\* C4 amended: needs_refresh() is false when now <= expires_at - 300 and true
\* when now > expires_at - 300; at exactly now = expires_at - 300 it is false.
C4_BoundaryFalse ==
    (op = "needs_refresh" /\ GetTokenExpiry(pre) # 0)
        => /\ (ret.val = Bool(FALSE)) = (preNow <= GetTokenExpiry(pre) - RefreshWindow)
           /\ (ret.val = Bool(TRUE)) = (preNow > GetTokenExpiry(pre) - RefreshWindow)

C4_Witness ==
    /\ op = "needs_refresh"
    /\ GetTokenExpiry(pre) # 0
    /\ preNow = GetTokenExpiry(pre) - RefreshWindow
    /\ ret.val = Bool(FALSE)

\* C5: a needs_refresh() call changes no stored credential and no handler
\* state, and returns false at every time when no token expiry is stored.
C5_NeedsRefreshPure ==
    [][op' = "needs_refresh" =>
        /\ file' = file
        /\ oauthBound' = oauthBound
        /\ hVerifier' = hVerifier
        /\ hState' = hState
        /\ posts' = 0
        /\ Get(file, "token_expires") = None => ret'.val = Bool(FALSE)]_vars

C5_Witness ==
    /\ op = "needs_refresh"
    /\ Get(pre, "token_expires") = None
    /\ file = pre
    /\ preNow > (StartTime + DefaultExpiresIn - 300) * TicksPerSecond
    /\ ret.val = Bool(FALSE)

\* C7: a refresh answered 200 leaves the answer's access token, its refresh
\* token (when it carries one) and now + expires_in stored; a refresh answered
\* non-200 raises and leaves the stored tokens and expiry as they were.
C7_RefreshPersistsOrPropagates ==
    RefreshPosted =>
        /\ resp.status = 200 =>
             /\ ~ret.raised
             /\ Get(file, "access_token") = resp.body["access_token"]
             /\ "refresh_token" \in DOMAIN resp.body =>
                    Get(file, "refresh_token") = resp.body["refresh_token"]
             /\ GetTokenExpiry(file) =
                    preNow + DictGet(resp.body, "expires_in", Num(DefaultExpiresIn)).num * TicksPerSecond
        /\ resp.status # 200 =>
             /\ ret.raised
             /\ ret.err = "Token refresh failed"
             /\ GetTokens(file) = GetTokens(pre)
             /\ file = pre

C7_Witness ==
    /\ op = "refresh"
    /\ posts = 1
    /\ resp.status # 200
    /\ ret.raised
    /\ Get(file, "access_token") # None
    /\ file = pre

\* C8: after a refresh answered 200 with no refresh_token field, the refresh
\* token stored before is still the stored refresh token, and it is non-empty.
C8_RefreshTokenRetained ==
    (/\ RefreshPosted
     /\ resp.status = 200
     /\ "refresh_token" \notin DOMAIN resp.body)
        => /\ GetRefreshToken(file) = GetRefreshToken(pre)
           /\ Truthy(GetRefreshToken(file))
           /\ "refresh_token" \in DOMAIN file.data

C8_Witness ==
    /\ op = "refresh"
    /\ posts = 1
    /\ resp.status = 200
    /\ "refresh_token" \notin DOMAIN resp.body
    /\ Get(file, "access_token") # Get(pre, "access_token")
    /\ GetRefreshToken(file) = GetRefreshToken(pre)
    /\ Truthy(GetRefreshToken(file))

-----------------------------------------------------------------------------
(* Claims about EtsyAPIClient.request(), checked under SpecClient *)

\* C6: with no access token stored, get_access_token() returns None without a
\* refresh POST, and request() raises "Not authenticated" having issued no
\* session.request() call.
C6_NotAuthenticated ==
    /\ (pc = "idle" /\ Get(file, "access_token") = None) =>
          \A r \in TokenResponses :
             LET o == GetAccessToken(file, oauthBound, now, r)
             IN  ~o.raised /\ o.val = None /\ o.posts = 0 /\ o.file = file
    /\ (op = "request" /\ Get(pre, "access_token") = None) =>
          /\ pc = "idle"
          /\ ret.raised
          /\ ret.err = "Not authenticated"
          /\ httpCalls = 0
          /\ posts = 0
          /\ file = pre

C6_Witness ==
    /\ op = "request"
    /\ requests = MaxRequests
    /\ Get(pre, "access_token") = None
    /\ ret.raised
    /\ ret.err = "Not authenticated"
    /\ httpCalls = 0
    /\ lastRequestTime > StartTime * TicksPerSecond

-----------------------------------------------------------------------------
(* Claims about the Credential Store, checked under SpecStore *)

\* C9: after clear_tokens() none of access_token, refresh_token and
\* token_expires is retrievable, an entry of theirs left in the document is
\* one that did not decrypt before the call, and api_key and manual_shop_id
\* are retrievable with the values they had before the call.
C9_ClearTokensFrame ==
    op = "clear_tokens" =>
        /\ \A k \in TokenKeys :
              /\ Get(file, k) = None
              /\ k \in DOMAIN file.data => (k \in DOMAIN pre.data /\ ~pre.data[k].ok)
        /\ \A k \in Keys \ TokenKeys : Get(file, k) = Get(pre, k)

C9_Witness ==
    /\ op = "clear_tokens"
    /\ \A k \in TokenKeys : Get(pre, k) # None /\ k \notin DOMAIN file.data
    /\ \A k \in Keys \ TokenKeys : Get(file, k) # None /\ Get(file, k) = Get(pre, k)

-----------------------------------------------------------------------------
(* Claims about EtsyOAuthHandler, checked under SpecOAuth *)

\* the redirect URL given to the last call carries a state parameter
CarriesState == \E i \in 1..Len(query) : query[i].k = "state"
\* the value of its first state parameter
CarriedState ==
    LET i == CHOOSE j \in 1..Len(query) :
                /\ query[j].k = "state"
                /\ \A h \in 1..(j - 1) : query[h].k # "state"
    IN  Text(query[i].v)

\* C10: in every state of the handler, extract_code_from_url given a redirect
\* URL that carries a state parameter returns the code only if the parameter
\* equals the CSRF state the handler stores; otherwise it raises, and in no
\* case is a network call made.
C10_StateMustMatch ==
    (op = "extract_code_from_url" /\ CarriesState) =>
        /\ posts = 0
        /\ ~ret.raised => CarriedState = hState


\* the redirect URL q has a parameter of that name with a value
HasParam(q, name) == \E i \in 1..Len(q) : q[i].k = name /\ q[i].v # ""

\* the value of the first such parameter, or the default
FirstParam(q, name, default) ==
    IF HasParam(q, name)
    THEN q[CHOOSE i \in 1..Len(q) :
               /\ q[i].k = name /\ q[i].v # ""
               /\ \A j \in 1..(i - 1) : ~(q[j].k = name /\ q[j].v # "")].v
    ELSE default

\* C11: extract_code_from_url raises a validation failure when the redirect
\* URL carries an error code (the message then holds that code and the
\* description, 'Unknown error' when none is given) and when it carries no
\* code; in both cases no token-exchange POST is issued and the stored
\* verifier and state are what they were before the call.
C11_ErrorOrNoCodeRaises ==
    [][(op' = "extract_code_from_url"
            /\ (HasParam(query', "error") \/ ~HasParam(query', "code"))) =>
        /\ ret'.raised
        /\ posts' = 0
        /\ sentVerifier' = None
        /\ hVerifier' = hVerifier
        /\ hState' = hState
        /\ IF HasParam(query', "error")
           THEN /\ ret'.err = "OAuth error"
                /\ ret'.val = [error |-> FirstParam(query', "error", ""),
                               desc |-> FirstParam(query', "error_description",
                                                   "Unknown error")]
           ELSE ret'.err = "No authorization code found in URL"]_vars

\* C11 witness: with a verifier and state stored, a redirect URL carrying both
\* an error code and an authorization code was refused with that error
C11_Witness ==
    /\ op = "extract_code_from_url"
    /\ HasParam(query, "error")
    /\ HasParam(query, "code")
    /\ Truthy(hVerifier)
    /\ Truthy(hState)
    /\ ret.raised
    /\ ret.err = "OAuth error"

\* C12: with two get_auth_url() calls outstanding, a redirect URL carrying the
\* first attempt's state is refused by extract_code_from_url, and an
\* exchange_code_for_token without an explicit verifier sends the second
\* attempt's verifier, never the first (the two attempts' values differing).
C12_OnlyLatestAttempt ==
    [][/\ (/\ op' = "extract_code_from_url"
           /\ prevAttempt # NoAttempt
           /\ prevAttempt.state # attempt.state
           /\ Text(FirstParam(query', "state", "")) = prevAttempt.state)
          => ret'.raised
       /\ (/\ op' = "exchange_code_for_token"
           /\ prevAttempt # NoAttempt
           /\ argVerifier' = None)
          => /\ posts' = 1
             /\ sentVerifier' = attempt.verifier
             /\ prevAttempt.verifier # attempt.verifier
                    => sentVerifier' # prevAttempt.verifier]_vars

\* C12 witness: after two attempts with different values, an exchange without
\* an explicit verifier posted the second attempt's verifier and was refused
\* by the server, so both attempts are still on record
C12_Witness ==
    /\ op = "exchange_code_for_token"
    /\ argVerifier = None
    /\ posts = 1
    /\ prevAttempt # NoAttempt
    /\ prevAttempt.verifier # attempt.verifier
    /\ prevAttempt.state # attempt.state
    /\ sentVerifier = attempt.verifier

\* C13: the stored verifier and state are cleared exactly when a token
\* exchange succeeds: a 200 exchange unsets both, a non-200 exchange raises
\* with the server's error and error_description and leaves both as they
\* were, no other call unsets either, and an exchange without an explicit
\* verifier while none is stored raises before any network call.
C13_ClearedOnSuccessOnly ==
    [][/\ (op' = "exchange_code_for_token" /\ posts' = 1 /\ resp'.status = 200)
          => /\ ~ret'.raised
             /\ hVerifier' = None
             /\ hState' = None
       /\ (op' = "exchange_code_for_token" /\ posts' = 1 /\ resp'.status # 200)
          => /\ ret'.raised
             /\ ret'.err = "Token exchange failed"
             /\ ret'.val = [error |-> DictGet(resp'.body, "error", Text("Unknown error")),
                            desc |-> DictGet(resp'.body, "error_description",
                                             Text("No description"))]
             /\ hVerifier' = hVerifier
             /\ hState' = hState
       /\ ((Truthy(hVerifier) /\ hVerifier' = None) \/ (Truthy(hState) /\ hState' = None))
          => (op' = "exchange_code_for_token" /\ posts' = 1 /\ resp'.status = 200)
       /\ (op' = "exchange_code_for_token" /\ hVerifier = None /\ argVerifier' = None)
          => /\ ret'.raised
             /\ ret'.err = "PKCE verifier not found. Call get_auth_url() first."
             /\ posts' = 0]_vars

\* C13 witness: the exchange after a completed one, without an explicit
\* verifier, raised without a POST
C13_Witness ==
    /\ op = "exchange_code_for_token"
    /\ argVerifier = None
    /\ hVerifier = None
    /\ hState = None
    /\ attempt = NoAttempt
    /\ ret.raised
    /\ posts = 0
    /\ pre = file

-----------------------------------------------------------------------------
(* Claims about the responses request() handles, checked under SpecClient *)

\* C14: when the server answered a request() with 429 and then with 200, the
\* call slept the Retry-After seconds of the 429 (60 when it had no such
\* header), issued exactly two session.request() calls with the same method,
\* URL and body, and returned the parsed body of the 200 answer without
\* raising.
C14_RetryAfter429 ==
    (/\ pc = "idle" /\ op = "request"
     /\ Len(answers) = 2
     /\ answers[1].status = 429
     /\ answers[2].status = 200) =>
        /\ sleeps = <<IF answers[1].retryAfter = None THEN 60 ELSE answers[1].retryAfter.num>>
        /\ now - preNow >= sleeps[1] * TicksPerSecond
        /\ httpCalls = 2
        /\ Len(sends) = 2
        /\ sends[1].method = args.method
        /\ sends[2].method = sends[1].method
        /\ sends[2].url = sends[1].url
        /\ sends[2].body = sends[1].body
        /\ ~ret.raised
        /\ ret.val = IF answers[2].content = None THEN None ELSE [count |-> Num(1)]

\* C14 witness: a POST with a form body was answered 429 without Retry-After
\* and then 200 with a body
C14_Witness ==
    /\ pc = "idle" /\ op = "request"
    /\ Len(answers) = 2
    /\ answers[1].status = 429
    /\ answers[1].retryAfter = None
    /\ answers[2].status = 200
    /\ answers[2].content # None
    /\ args.method = "POST"
    /\ sends[2].body.kind = "text"
    /\ sleeps = <<60>>

\* C17: for every response with a status >= 400 other than 429, request()
\* raises and returns no body, issues no further session.request() call and
\* no token refresh, and the failure's prefix follows from the status: Bad
\* Request for 400, Unauthorized for 401, Forbidden for 403 (Insufficient
\* permissions when the message mentions insufficient_scope), Not Found for
\* 404, API Error for any other.
C17_ErrorsRaiseByStatus ==
    [][\A i \in 1..Len(answers') :
          (i > Len(answers) /\ answers'[i].status >= 400 /\ answers'[i].status # 429) =>
             /\ pc' = "idle"
             /\ ret'.raised
             /\ ret'.val = None
             /\ httpCalls' = httpCalls
             /\ sends' = sends
             /\ posts' = posts
             /\ file' = file
             /\ ret'.err = CASE answers'[i].status = 400 -> "Bad Request"
                             [] answers'[i].status = 401 -> "Unauthorized"
                             [] answers'[i].status = 403 ->
                                   IF ErrorMessage(answers'[i].body).scope
                                   THEN "Insufficient permissions" ELSE "Forbidden"
                             [] answers'[i].status = 404 -> "Not Found"
                             [] OTHER -> "API Error"]_vars

-----------------------------------------------------------------------------
(* Claims about the encoding of a request, checked under SpecPrepare *)

\* C15: the body is chosen by precedence over the arguments given to
\* request(): whenever json_data is given the body is its JSON serialization
\* with Content-Type application/json, whatever the other arguments;
\* otherwise whenever files is given the body is multipart and the client sets
\* no Content-Type; otherwise data that is given is sent in the form encoding.
C15_BodyPrecedence ==
    (op = "request" /\ Len(sends) = 1 /\ answers = <<>> /\ args \in PrepareInputs) =>
        IF args.json_data.given
        THEN /\ sends[1].ctype = "application/json"
             /\ sends[1].body.kind = "text"
             /\ sends[1].body.text = JsonDumps(args.json_data.d)
        ELSE IF args.files.given
        THEN /\ sends[1].ctype = ""
             /\ sends[1].body.kind = "multipart"
        ELSE args.data.given =>
                /\ sends[1].ctype = "application/x-www-form-urlencoded"
                /\ sends[1].body.kind = "text"
                /\ sends[1].body.text = EncodeFormData(args.data.d)

\* the pairs a value yields: none for None, one per element for a list, one
\* for a scalar
PairCount(v) ==
    IF v.kind = "none" THEN 0 ELSE IF v.kind = "list" THEN Len(v.items) ELSE 1

\* the pairs yielded by the keys before the i-th
RECURSIVE PairsBefore(_, _)
PairsBefore(d, i) ==
    IF i <= 1 THEN 0 ELSE PairsBefore(d, i - 1) + PairCount(d[i - 1].v)

\* the p-th pair of the encoding of d
ExpectedPair(d, p) ==
    LET i == CHOOSE i \in 1..Len(d) :
                 PairsBefore(d, i) < p /\ p <= PairsBefore(d, i) + PairCount(d[i].v)
        v == d[i].v
    IN  IF v.kind = "list"
        THEN d[i].k \o <<"[", "]", "=">> \o Quote(Str(v.items[p - PairsBefore(d, i)]))
        ELSE d[i].k \o <<"=">> \o Quote(Str(v))

\* the mapping {a: x, b: [1, 2]}
ExampleData ==
    <<[k |-> <<"a">>, v |-> FStr(<<"x">>)],
      [k |-> <<"b">>, v |-> FList(<<FInt(1), FInt(2)>>)]>>

\* C16: _encode_form_data returns the '&'-joined pairs of the keys in
\* insertion order: key[]=value per element of a list, in list order, none
\* for an empty list, key=value for a scalar, nothing for None, each value
\* percent-encoded; {a: x, b: [1,2]} yields a=x&b[]=1&b[]=2.
C16_FormEncoding ==
    op = "_encode_form_data" =>
        LET d == args.data.d
        IN  /\ ret.val.chars =
                   Join([p \in 1..PairsBefore(d, Len(d) + 1) |-> ExpectedPair(d, p)], <<"&">>)
            /\ d = ExampleData =>
                   ret.val.chars = <<"a", "=", "x", "&", "b", "[", "]", "=", "1",
                                     "&", "b", "[", "]", "=", "2">>

\* C16 witness: {a: x, b: [1, 2]} was encoded
C16_Witness ==
    /\ op = "_encode_form_data"
    /\ args.data.d = ExampleData
    /\ ret.val.chars # <<>>

-----------------------------------------------------------------------------
(* Claims about ConfigManager, checked under SpecStore *)

\* C18 as stated: after set(key, value) a get(key) returns exactly value, for
\* every string value, the empty string included, whatever the key held.
C18_SetThenGet ==
    op = "set" => Get(file, argKey) = argValue

\* C18: after set(key, value) with a non-empty value a get(key) returns
\* exactly value, whatever the key held before; set(key, '') writes no entry,
\* so get(key) returns what it returned before the call.
C18_SetThenGetNonEmpty ==
    op = "set" =>
        IF argValue # Text("")
        THEN Get(file, argKey) = argValue
        ELSE Get(file, argKey) = Get(pre, argKey)

\* C18 witness: set() replaced a different value the key held
C18_Witness ==
    /\ op = "set"
    /\ argValue # Text("")
    /\ Get(pre, argKey) # None
    /\ Get(pre, argKey) # argValue
    /\ Get(file, argKey) = argValue

\* C19: whatever set, delete, save_tokens, clear_tokens and clear_all calls
\* were made, no entry of the persisted document holds the empty string.
C19_NoEmptyValue ==
    file.st = "json" =>
        \A k \in DOMAIN file.data : file.data[k].ok => file.data[k].plain # Text("")

\* C19 witness: the empty string was set on a key of a document holding
\* other entries, and the key is absent
C19_Witness ==
    /\ op = "set"
    /\ argValue = Text("")
    /\ file.st = "json"
    /\ file.data # EmptyDict
    /\ argKey \notin DOMAIN file.data

\* the entry the document holds for a key: its ciphertext, or nothing
Entry(f, k) ==
    IF f.st = "json" /\ k \in DOMAIN f.data THEN <<f.data[k]>> ELSE <<>>

\* C20: set(key, value) and delete(key) change only the named key: every other
\* entry of the document, an undecryptable one included, is the same before
\* and after; delete of a present key leaves the prior document without that
\* key; delete of an absent key changes nothing; delete never raises.
C20_OnlyNamedKey ==
    /\ op \in {"set", "delete"} =>
          \A k \in Keys \ {argKey} : Entry(file, k) = Entry(pre, k)
    /\ op = "delete" =>
          /\ ~ret.raised
          /\ Entry(file, argKey) = <<>>
          /\ Entry(pre, argKey) = <<>> => file = pre

-----------------------------------------------------------------------------
(* Claims about concurrent access to config.json, checked under SpecWrite *)

\* C22: a reader that loads the document while the single writer executes
\* set, save_tokens or delete sees the complete document of before the write
\* or the complete document of after it, never an empty, missing or partly
\* written one.
C22_ReaderSeesWholeDocument ==
    (op = "reader_load" /\ wr.pc # "idle") => seen \in {wr.old, wr.new}

-----------------------------------------------------------------------------
(* Claims about UploadService, checked under SpecUpload *)

\* processing the row raises: create_listing raises, or the row names an
\* image and publish_listing raises
RowRaises(row) ==
    \/ row.fault = "create_listing"
    \/ row.fault = "publish_listing" /\ row.image

\* C23: once the pre-loop setup has succeeded, upload_products processes
\* every valid product in input order whatever failed before: results has one
\* entry per valid product, in order, an entry is marked failed exactly when
\* processing that product raised, and successful + failed = total.
C23_UploadContinues ==
    (up.pc = "done" /\ up.setup /\ Len(up.products) > 0) =>
        /\ up.ret.success
        /\ up.products = SelectSeq(up.df, LAMBDA row : row.title \in {"Mug", "Vase"})
        /\ Len(up.results) = Len(up.products)
        /\ \A i \in 1..Len(up.products) :
              /\ up.results[i].title = up.products[i].title
              /\ up.results[i].success = ~RowRaises(up.products[i])
        /\ up.ret.total = Len(up.products)
        /\ up.ret.successful + up.ret.failed = up.ret.total
        /\ up.ret.failed = Cardinality({i \in 1..Len(up.products) : RowRaises(up.products[i])})

\* C23 witness: of three products only the second raised, and the results
\* are success, failure, success
C23_Witness ==
    /\ up.pc = "done"
    /\ up.setup
    /\ Len(up.products) = 3
    /\ ~RowRaises(up.products[1]) /\ RowRaises(up.products[2]) /\ ~RowRaises(up.products[3])
    /\ [i \in 1..3 |-> up.results[i].success] = <<TRUE, FALSE, TRUE>>
    /\ up.ret.successful = 2
    /\ up.ret.failed = 1

-----------------------------------------------------------------------------
(* Claims about PKCE generation, checked under SpecPkce *)

\* C24: every pair returned by generate_pkce() has challenge =
\* base64url-without-padding(SHA-256(verifier)), and the verifier built from
\* 96 random bytes is between 43 and 128 characters long.
C24_PkcePair ==
    op = "generate_pkce" =>
        /\ pkce.ret.challenge =
               RStripPad(UrlsafeB64Encode(Sha256Digest(Utf8Encode(pkce.ret.verifier))))
        /\ \A i \in 1..Len(pkce.ret.challenge) : pkce.ret.challenge[i] # "="
        /\ Len(pkce.ret.verifier) >= 43
        /\ Len(pkce.ret.verifier) <= 128

\* C24 witness: a pair was generated from 96 bytes; the verifier has 128
\* characters and the challenge 43
C24_Witness ==
    /\ op = "generate_pkce"
    /\ Len(pkce.bytes) = 96
    /\ Len(pkce.ret.verifier) = 128
    /\ Len(pkce.ret.challenge) = 43

-----------------------------------------------------------------------------
(* Claims about the 429 retries of request(), checked under SpecRetry *)

\* C25: request() puts no bound on the retries and never surfaces a 429:
\* for every n, when the server has answered 429 n times, request() ends
\* only after n+1 HTTP calls, with the outcome of the answer to the last of
\* them, which is not a 429.
C25_RetriesUntilNon429 ==
    rq.pc = "returned" =>
        /\ rq.status # 429
        /\ rq.calls = rq.n429 + 1
        /\ rq.raised = (rq.status >= 400)

-----------------------------------------------------------------------------
(* Claims about the connect flow, checked under SpecApp *)

\* C26: in the connect flow, a submitted redirect URL whose state parameter
\* differs from the state embedded in the generated authorization URL is
\* rejected, and no token exchange is attempted.
C26_FlowRejectsForeignState ==
    (/\ op = "submit"
     /\ HasParam(query, "state")
     /\ Text(FirstParam(query, "state", "")) # attempt.state) =>
        /\ ret.raised
        /\ posts = 0

-----------------------------------------------------------------------------
(* Claims about the rate-limit snapshot, checked under SpecClient *)

\* C27: after a response that carries the rate-limit headers, the snapshot
\* read by get_rate_limit_status() holds the last-observed remaining
\* counters: X-Remaining-This-Second as the per-second counter and
\* X-Remaining-Today as the per-day counter.
C27_SnapshotHoldsRemaining ==
    (/\ op = "request"
     /\ Len(answers) > 0
     /\ answers[Len(answers)].headers = RateHeaders) =>
        /\ GetRateLimitStatus(rate).requests_per_second = RateHeaders["X-Remaining-This-Second"]
        /\ GetRateLimitStatus(rate).requests_today = RateHeaders["X-Remaining-Today"]

-----------------------------------------------------------------------------
(* Claims about the throttle of request(), checked under SpecClient *)

\* a request() call starts right after the previous one has returned on a
\* response
NextCallSends ==
    /\ pc = "idle"
    /\ op = "request"
    /\ Len(answers) > 0
    /\ answers[Len(answers)].status # 429
    /\ requests' = requests + 1
    /\ pc' = "sent"

\* C28: of two consecutive request() calls, the second one's HTTP send
\* happens at least half a second after the first one's completion, the
\* moment its response was received.
C28_SpacedFromCompletion ==
    [][NextCallSends => lastRequestTime' >= now + RateLimitDelay]_vars

\* C28, amended: every HTTP send of a client happens at least half a second
\* after the moment the previous throttle ended, which is the moment just
\* before the previous send and not the moment its response was received.
C28_SpacedFromLastSend ==
    [][(pc' = "sent" /\ lastRequestTime > 0)
          => lastRequestTime' >= lastRequestTime + RateLimitDelay]_vars

\* C28 witness: a second call that followed the first one's response at once
\* was held back by the throttle, and sent half a second after the first send
C28_Witness ==
    /\ requests = 2
    /\ op = "request"
    /\ pc = "sent"
    /\ httpCalls = 1
    /\ lastRequestTime = now
    /\ now > preNow
    /\ now = StartTime * TicksPerSecond + RateLimitDelay

-----------------------------------------------------------------------------
(* Claims about EtsyOAuthHandler.refresh_token, checked under SpecOAuth *)

\* C29: refresh_token is independent of the handshake: it can be called in
\* every state of the handler, it leaves the stored verifier and CSRF state
\* as they are, it issues exactly one POST, and it raises exactly when the
\* answer is not a 200, without another POST.
C29_RefreshIndependent ==
    /\ [](ENABLED HRefreshToken)
    /\ [][op' = "refresh_token" =>
              /\ hVerifier' = hVerifier
              /\ hState' = hState
              /\ posts' = 1
              /\ ret'.raised = (resp'.status # 200)]_vars

\* C29 witness: refresh_token was called while a handshake was in progress,
\* the answer was not a 200, and the call raised after its one POST with the
\* verifier and state still stored
C29_Witness ==
    /\ op = "refresh_token"
    /\ Truthy(hVerifier)
    /\ Truthy(hState)
    /\ resp.status # 200
    /\ ret.raised
    /\ posts = 1

-----------------------------------------------------------------------------
(* Claims about the token of a retry, checked under SpecClient *)

\* request() answers a 429 by sleeping and sending the retry
RetrySend == pc = "sent" /\ pc' = "sent" /\ httpCalls' = httpCalls + 1

\* the stored token was outside the refresh window when the 429-answered
\* attempt was sent and is inside it when the retry asks for its token
EnteredWindow == ~NeedsRefresh(file, lastRequestTime) /\ NeedsRefresh(file, lastRequestTime')

\* C30: every retry after a 429 sleep carries the access token that
\* get_access_token() returns after the sleep; if the stored token entered
\* the refresh window during the sleep, the retry is preceded by a refresh
\* and carries the access token of the refresh answer.
C30_RetryCarriesFreshToken ==
    [][RetrySend =>
          /\ sentToken' = GetTokens(file')["access_token"]
          /\ EnteredWindow =>
                /\ posts' = posts + 1
                /\ resp'.status = 200
                /\ sentToken' = resp'.body["access_token"]]_vars

====
